---- MODULE Spec2Model ----
(***************************************************************************)
(* roundsman: the project state machine, the background agent / watcher    *)
(* processes and the round-robin main loop of src/roundsman.js.            *)
(*                                                                         *)
(* The program is single threaded: a handler (a REPL command, a process'   *)
(* close handler, a timer) runs to completion, and handlers of background  *)
(* processes run only while the main loop is suspended in an await (the    *)
(* prompt, or the idle wait).  One action of the model is one handler.     *)
(***************************************************************************)
EXTENDS Integers, Sequences, FiniteSets, TLC

\* ------------------------------------------------------------------ bounds
MaxProcs == 2      \* agent processes alive at once in a scheduling run
MaxSessionProcs == 1 \* agent processes alive at once in a session run
MaxWatchers == 1   \* watcher processes alive at once that the model follows
MaxTurn == 1       \* completed turns of a scheduling run (all projects)
MaxSessionTurn == 2 \* completed turns of a session run (all projects)
MaxTime == 1       \* cap on the clock
MaxRoundProcs == 1 \* agent processes alive at once in a rotation run
MaxRoundTurn == 1  \* completed turns of a rotation run (all projects)
MaxQuitProcs == 1  \* agent processes alive at once in a run that ends
MaxQuitTurn == 1   \* completed turns of a run that ends (all projects)
MaxCastProcs == 4  \* agent processes alive at once in a broadcast run
MaxCastTurn == 3   \* completed turns of a broadcast run (all projects)
MaxWaitProcs == 1  \* agent processes alive at once in an idle-wait run
MaxWaitTurn == 1   \* turns the user starts in an idle-wait run
MaxSessionHeld == 0 \* progress lines a session run lets a held project add
MaxHoldProcs == 1  \* agent processes alive at once in a held-output run
MaxHoldTurn == 1   \* completed turns of a held-output run (all projects)
MaxHeld == 2        \* progress lines held back per project in a held-output run
MaxWatchProcs == 2   \* watcher processes alive at once in the watcher runs
MaxHookProcs == 1    \* agent processes alive at once in the watcher runs
MaxHookTurn == 1     \* completed turns in the watcher runs
MaxStopProcs == 2    \* agent processes alive at once in the /stop runs
MaxStopTurn == 2     \* completed turns in the /stop runs
MaxSkipProcs == 2    \* agent processes alive at once in the /skip runs
MaxSkipTurn == 1     \* completed turns in the /skip runs
MaxRounds == 3       \* the largest count given to /skip
MaxText == 5         \* characters a followed process writes
MaxDocTurn == 1      \* completed turns of the followed marker

\* ------------------------------------------------------- program constants
MAX_HISTORY == 20
RESULT_CAP == 2000
SUMMARY_CAP == 500
DETAIL_CAP == 500
PENDING_CAP == 200 \* lines the pending-output buffer of a project keeps
ERR_HEAD == 16     \* length of "error: exit <code> — "

\* ---------------------------------------------------------------- state
VARIABLES
  projects,        \* the discovered projects, in discovery order
  maxHistory,      \* globalConfig.maxHistory
  config,          \* per project: the marker's watch command and hooks
  state,           \* project.state
  proc,            \* project.proc: index into agents[p], 0 for null
  stopReason,      \* project.stopReason
  loop,            \* project.loop
  snoozeUntil,     \* project.snoozeUntil
  holdStream,      \* project.holdStream
  watchProc,       \* project.watchProc: index into watchers[p], 0 for null
  watchStopReason, \* project.watchStopReason
  session,         \* project.config.session
  queue,           \* the rotation queue
  totalCost,       \* the run's accumulated cost
  wakeIdle,        \* TRUE while the idle wait has registered its waiter
  timer,           \* the idle wait's timeout: its due time, NoTimer when unset
  pc,              \* where main() is: setup, select, wait, prompt, done
  cur,             \* the project being presented at the prompt
  now,             \* Date.now()
  agents,          \* per project: the agent processes that have not closed
  watchers,        \* per project: the watcher processes that have not closed
  marker,          \* per project: the session block of the marker file at startup
  completed,       \* agent turns completed in this run (what the caps count)
  pendingStream,   \* project.pendingStream: the progress lines held back
  streamOut,       \* the progress-stream lines the last handler printed
  stream,          \* one process's stdout: what it writes, the chunks fed to
                   \* the line splitter so far, state.lineBuf, the lines and
                   \* the decoded records delivered
  doc              \* one project's marker: project.config in memory, the
                   \* file on disk, the prompt of the turn, the turn's phase

vars == << projects, maxHistory, config, state, proc, stopReason, loop,
           snoozeUntil, holdStream, watchProc, watchStopReason, session,
           queue, totalCost, wakeIdle, timer, pc, cur, now, agents, watchers,
           marker, completed, pendingStream, streamOut, stream, doc >>

NoProject == "-"
NoTimer == -1
NoLoop == [max |-> 0, goal |-> "", done |-> 0]

Proj == {projects[i] : i \in DOMAIN projects}

\* ------------------------------------------------------------ JS helpers
Min(a, b) == IF a < b THEN a ELSE b
Max(a, b) == IF a > b THEN a ELSE b

\* Array.prototype.slice(start, end) on a 0-based array, negative indices
\* counted from the end; arrays are 1-based sequences here.
JsSlice(s, start, end) ==
  LET n == Len(s)
      from == IF start < 0 THEN Max(n + start, 0) ELSE Min(start, n)
      to == IF end < 0 THEN Max(n + end, 0) ELSE Min(end, n)
  IN  IF from >= to THEN << >> ELSE SubSeq(s, from + 1, to)

\* arr.slice(0, k): the first k elements
SliceFirst(s, k) == JsSlice(s, 0, k)

\* arr.slice(-k): the last k elements (slice(-0) is slice(0): everything)
SliceLast(s, k) == JsSlice(s, 0 - k, Len(s))

Includes(q, p) == \E i \in DOMAIN q : q[i] = p

\* Array.prototype.indexOf, 1-based; 0 when absent
IndexOf(q, p) ==
  IF Includes(q, p)
  THEN CHOOSE i \in DOMAIN q : q[i] = p /\ \A j \in 1..(i - 1) : q[j] # p
  ELSE 0

RemoveAt(s, i) == SubSeq(s, 1, i - 1) \o SubSeq(s, i + 1, Len(s))

\* const i = queue.indexOf(p); if (i >= 0) queue.splice(i, 1);
SpliceOut(q, p) == IF IndexOf(q, p) > 0 THEN RemoveAt(q, IndexOf(q, p)) ELSE q

\* a push that does not look for the project in the queue
PushAlways(q, p) == Append(q, p)

\* if (!queue.includes(p)) queue.push(p);
PushIfAbsent(q, p) == IF Includes(q, p) THEN q ELSE Append(q, p)

FilterSeq(s, Keep(_)) == SelectSeq(s, Keep)

\* A text is modelled by what the code reads of it: whether it starts with
\* "error:" and its length.
Text(err, len) == [err |-> err, len |-> len]
EmptyText == Text(FALSE, 0)
IsEmpty(t) == t.len = 0
StartsWithError(t) == t.err
\* String.prototype.slice(0, n), n >= 6
StrSlice(t, n) == [t EXCEPT !.len = Min(t.len, n)]

\* ------------------------------------------------------------- the world
\* The mutable program state as one record, so that a handler that calls
\* other functions is the composition of their effects.  Its field out
\* collects what the handler writes to the terminal, in order; the part of it
\* that belongs to the progress stream (emitProgress, flushBufferedProgress)
\* is kept in streamOut until the next handler runs.
W == [ state |-> state, proc |-> proc, stopReason |-> stopReason,
       loop |-> loop, snoozeUntil |-> snoozeUntil, holdStream |-> holdStream,
       watchProc |-> watchProc, watchStopReason |-> watchStopReason,
       session |-> session, queue |-> queue, totalCost |-> totalCost,
       wakeIdle |-> wakeIdle, timer |-> timer, pc |-> pc,
       agents |-> agents, watchers |-> watchers,
       pendingStream |-> pendingStream, out |-> << >> ]

\* ------------------------------------------------------------- terminal
\* A line on the terminal: tag "R" for rmLog and "agent" for agentLog, the
\* project it is about, its text, and the reason or the count it carries.
Line(tag, p, msg, why, n) == [tag |-> tag, p |-> p, msg |-> msg, why |-> why, n |-> n]

\* rmLog(msg), msg naming project p
rmLog(w, p, msg) == [w EXCEPT !.out = Append(@, Line("R", p, msg, "", 0))]

\* agentLog(project, msg)
agentLog(w, p, msg, why, n) == [w EXCEPT !.out = Append(@, Line("agent", p, msg, why, n))]

\* a progress line of project p: its text and its number in the stream
Progress(p, msg, n) == Line("agent", p, msg, "", n)

WaitLine(p) == Progress(p, "[wait]", 0)

\* the lines written by emitProgress and flushBufferedProgress
IsStreamLine(l) == l.msg \in {"[wait]", "[agent]", "[stderr]", "[buffered]"}

\* pushBufferedProgress(project, msg)
pushBufferedProgress(w, p, line) ==
  [w EXCEPT !.pendingStream[p] = SliceLast(Append(@, line), PENDING_CAP)]

\* an emitProgress that prints whatever the hold flag says
emitProgressLive(w, p, line) == [w EXCEPT !.out = Append(@, line)]

\* emitProgress(project, msg), msg not empty
emitProgress(w, p, line) ==
  IF w.holdStream[p] THEN pushBufferedProgress(w, p, line)
  ELSE [w EXCEPT !.out = Append(@, line)]

\* flushBufferedProgress(project)
flushBufferedProgress(w, p) ==
  LET list == w.pendingStream[p]
  IN  IF list = << >> THEN w
      ELSE [agentLog(w, p, "[buffered]", "", Len(list))
              EXCEPT !.out = @ \o list, !.pendingStream[p] = << >>]

\* the handler's result is computed once and then assigned
Commit(w) ==
  \E v \in {w} :
    /\ state' = v.state
    /\ proc' = v.proc
    /\ stopReason' = v.stopReason
    /\ loop' = v.loop
    /\ snoozeUntil' = v.snoozeUntil
    /\ holdStream' = v.holdStream
    /\ watchProc' = v.watchProc
    /\ watchStopReason' = v.watchStopReason
    /\ session' = v.session
    /\ queue' = v.queue
    /\ totalCost' = v.totalCost
    /\ wakeIdle' = v.wakeIdle
    /\ timer' = v.timer
    /\ pc' = v.pc
    /\ agents' = v.agents
    /\ watchers' = v.watchers
    /\ pendingStream' = v.pendingStream
    /\ streamOut' = SelectSeq(v.out, IsStreamLine)

\* -------------------------------------------------- session (persisted)
\* the session of a project that setupProject has not built yet
NotLoaded == [sessionId |-> "", turn |-> 0, summary |-> EmptyText, history |-> << >>]

\* hasSuccessfulTurn(config)
hasSuccessfulTurn(sess) ==
  \E k \in DOMAIN sess.history :
    ~IsEmpty(sess.history[k].result) /\ ~StartsWithError(sess.history[k].result)

\* A value parsed from the marker file carries whether it has the type the
\* code tests for (typeof, Number.isInteger, Array.isArray) and, if so, its
\* value: Typed(ok, val).
Typed(ok, val) == [ok |-> ok, val |-> val]

\* normalizeSession(v, maxHistory): raw is the parsed "session" value of the
\* marker; raw.obj says whether it is an object at all
normalizeSession(raw, cap) ==
  LET s == raw.val
      arr == IF raw.ok /\ s.history.ok THEN s.history.val ELSE << >>
      objs == SelectSeq(arr, LAMBDA h : h.ok)
      recs == [k \in DOMAIN objs |-> objs[k].val]
  IN  [ sessionId |-> IF raw.ok /\ s.sessionId.ok THEN s.sessionId.val ELSE "",
        turn |-> IF raw.ok /\ s.turn.ok /\ s.turn.val >= 0 THEN s.turn.val ELSE 0,
        summary |-> IF raw.ok /\ s.summary.ok THEN s.summary.val ELSE EmptyText,
        history |-> SliceLast(recs, cap) ]

\* a setupProject that takes the session as loaded
setupSessionAsLoaded(raw, cap, uuid) == normalizeSession(raw, cap)

\* setupProject: the session of the marker, normalized, with a sessionId;
\* uuid is what randomUUID() returns
setupSession(raw, cap, uuid) ==
  LET s == normalizeSession(raw, cap)
  IN  IF s.sessionId = "" THEN [s EXCEPT !.sessionId = uuid] ELSE s

\* resetSession(project); uuid is what randomUUID() returns
resetSession(w, p, uuid) ==
  [w EXCEPT !.session[p] =
     [sessionId |-> uuid, turn |-> 0, summary |-> EmptyText, history |-> << >>]]

\* a revert that also starts the turn counter over
revertToStart(w, p) ==
  LET s == w.session[p]
      h == SubSeq(s.history, 1, Len(s.history) - 1)
  IN  IF Len(s.history) = 0 THEN w
      ELSE [w EXCEPT !.session[p] = [s EXCEPT !.turn = 0, !.history = h]]

\* revertLastTurn(project) once git has reverted HEAD: pop the last record
revertLastTurn(w, p) ==
  LET s == w.session[p]
      h == SubSeq(s.history, 1, Len(s.history) - 1)
  IN  IF Len(s.history) = 0 THEN w
      ELSE [w EXCEPT !.session[p] =
              [ sessionId |-> s.sessionId,
                turn |-> Max(0, s.turn - 1),
                summary |-> IF Len(h) > 0 THEN StrSlice(h[Len(h)].result, SUMMARY_CAP)
                            ELSE EmptyText,
                history |-> h ]]

\* --------------------------------------------------------- processes
\* An agent process that has not delivered its close notification:
\*   input    the userInput its handlers closed over
\*   waitStop the waitStop flag of its stopForInputWait
\*   kills    how many times kill() was called on it
\*   resume   launched with --resume <sessionId> (else --session-id <sessionId>)
\*   failed   its "error" event has been delivered
NewAgent(input, resume) ==
  [input |-> input, waitStop |-> FALSE, kills |-> 0, resume |-> resume,
   failed |-> FALSE]
NewWatcher == [kills |-> 0, failed |-> FALSE]

\* project.proc.kill()
KillProc(w, p) ==
  [w EXCEPT !.agents[p][w.proc[p]].kills = @ + 1]

\* project.watchProc.kill()
KillWatchProc(w, p) ==
  [w EXCEPT !.watchers[p][w.watchProc[p]].kills = @ + 1]

\* spawnAgent(project, userInput, onDone, model): lines 776-785, 795-800 and
\* 945-946
spawnAgent(w, p, input) ==
  LET isResume == hasSuccessfulTurn(w.session[p])
      a == Append(w.agents[p], NewAgent(input, isResume))
  IN  [w EXCEPT !.agents[p] = a,
                !.holdStream[p] = FALSE,
                !.proc[p] = Len(a),
                !.state[p] = "working"]

\* stopForInputWait() of the i-th live agent of p
stopForInputWait(w, p, i) ==
  IF w.agents[p][i].waitStop THEN w
  ELSE [w EXCEPT !.agents[p][i].waitStop = TRUE,
                 !.agents[p][i].kills = @ + 1,
                 !.stopReason[p] = "agent requested user input"]

\* an onAgentDone / onWatchDone that forgets the waiter instead of calling it
WakeDropped(w) == [w EXCEPT !.wakeIdle = FALSE]

\* the finish() of the idle wait, called through wakeIdle
Wake(w) ==
  IF w.wakeIdle
  THEN [w EXCEPT !.wakeIdle = FALSE, !.timer = NoTimer, !.pc = "select"]
  ELSE w

\* onAgentDone(project, result, cost, opts)
onAgentDone(w, p, result, cost, stopped) ==
  LET w0 == [w EXCEPT !.totalCost = @ + cost,
                      !.state[p] = "idle",
                      !.proc[p] = 0]
      w1 == IF stopped
            THEN agentLog(rmLog(w0, p, "[stopped]"), p, "stopped:", result.why, 0)
            ELSE agentLog(rmLog(w0, p, "[done]"), p,
                          IF IsEmpty(result) THEN "(empty result)" ELSE "result",
                          "", 0)
      lp == w1.loop[p]
      looping == ~stopped /\ lp # NoLoop
      done == lp.done + 1
      w2 == IF ~looping THEN w1
            ELSE IF StartsWithError(result)
            THEN [rmLog(w1, p, "[loop stop]") EXCEPT !.loop[p] = NoLoop]
            ELSE IF done < lp.max
            THEN [rmLog(w1, p, "[loop]") EXCEPT !.loop[p].done = done]
            ELSE [rmLog(w1, p, "[loop done]") EXCEPT !.loop[p] = NoLoop]
  IN  IF looping /\ ~StartsWithError(result) /\ done < lp.max
      THEN spawnAgent(w2, p, lp.goal)
      ELSE Wake([w2 EXCEPT !.queue = PushIfAbsent(@, p)])

\* What the process printed and how it exited, as the close handler reads
\* it (lines 885-909):
\*   code      exit code
\*   stdout    the trimmed raw stdout
\*   seen      stream.streamSeen: some stdout line parsed as an event
\*   result, cost, turns, sid   the fields accumulated from the events
\*   json      whether the whole stdout parses as one JSON value, and then
\*   jresult, jcost, jturns, jsid   its fields
\*   stderr    the trimmed raw stderr
\*   tailWait  the unterminated last stdout line is an input-wait event
ErrorResult(o) ==
  LET err == StrSlice(o.stderr, DETAIL_CAP)
      head == StrSlice(o.stdout, DETAIL_CAP)
      detail == IF ~IsEmpty(err) THEN err ELSE head
  IN  Text(TRUE, ERR_HEAD + detail.len)

\* [result, cost, turns, sid]: sid is "" when the session id is kept
TurnResult(o) ==
  IF o.code = 0 /\ ~IsEmpty(o.stdout)
  THEN LET r1 == IF o.seen THEN o.result ELSE EmptyText
           c1 == IF o.seen THEN o.cost ELSE 0
           t1 == IF o.seen THEN o.turns ELSE 0
           s1 == IF o.seen THEN o.sid ELSE ""
       IN  IF ~IsEmpty(r1)
           THEN [result |-> r1, cost |-> c1, turns |-> t1, sid |-> s1]
           ELSE IF o.json
           THEN [ result |-> o.jresult,
                  cost |-> IF c1 = 0 THEN o.jcost ELSE c1,
                  turns |-> IF t1 = 0 THEN o.jturns ELSE t1,
                  sid |-> IF o.jsid # "" THEN o.jsid ELSE s1 ]
           ELSE [ result |-> StrSlice(o.stdout, RESULT_CAP),
                  cost |-> c1, turns |-> t1, sid |-> s1 ]
  ELSE [result |-> ErrorResult(o), cost |-> 0, turns |-> 0, sid |-> ""]

\* a TurnRecord that keeps the whole result
TurnRecordWhole(r, input) ==
  [result |-> r.result, cost |-> r.cost, turns |-> r.turns, input |-> input]

\* the TurnRecord pushed at line 916
TurnRecord(r, input) ==
  [ result |-> StrSlice(r.result, RESULT_CAP), cost |-> r.cost,
    turns |-> r.turns, input |-> input ]

\* config.session.history.push(...); history = history.slice(-cfg.maxHistory)
PushHistory(h, rec, cap) == SliceLast(Append(h, rec), cap)

\* the session after a real completion (lines 855, 890-917)
CompleteTurn(sess, r, input, cap) ==
  [ sessionId |-> IF r.sid # "" THEN r.sid ELSE sess.sessionId,
    turn |-> sess.turn + 1,
    summary |-> IF ~IsEmpty(r.result) /\ ~StartsWithError(r.result)
                THEN StrSlice(r.result, SUMMARY_CAP) ELSE sess.summary,
    history |-> PushHistory(sess.history, TurnRecord(r, input), cap) ]

\* consumeStreamTail at lines 861-878: an input-wait event left in the tail
streamTail(w, p, i, o) ==
  IF o.tailWait
  THEN stopForInputWait([emitProgress(w, p, WaitLine(p)) EXCEPT !.holdStream[p] = TRUE],
                        p, i)
  ELSE w

\* `stopped: ${why}`
StoppedText(why) == [err |-> FALSE, len |-> 9, why |-> why]

\* a close handler that does not look at the stop reason
agentCloseUnchecked(w, p, i, o) ==
  LET r == TurnResult(o)
      w2 == [w EXCEPT !.session[p] =
               CompleteTurn(@, r, w.agents[p][i].input, maxHistory),
                      !.agents[p] = RemoveAt(@, i)]
  IN  onAgentDone(w2, p, r.result, r.cost, FALSE)

\* proc.on("close") of the i-th live agent of p, with output o
agentClose(w, p, i, o) ==
  IF w.stopReason[p] # ""
  THEN onAgentDone([w EXCEPT !.stopReason[p] = "",
                             !.agents[p] = RemoveAt(@, i)],
                   p, StoppedText(w.stopReason[p]), 0, TRUE)
  ELSE LET r == TurnResult(o)
           w1 == streamTail(w, p, i, o)
           w2 == [w1 EXCEPT !.session[p] =
                    CompleteTurn(@, r, w.agents[p][i].input, maxHistory),
                            !.agents[p] = RemoveAt(@, i)]
       IN  onAgentDone(w2, p, r.result, r.cost, FALSE)

\* ------------------------------------------------------ marker document
\* A JSON value: its type t (typeof / Array.isArray / null; "none" is
\* undefined, the value of an absent key), the strings it holds in v (the
\* text of a string, String(x) of a number or boolean, the elements of an
\* array) and a number n.
Str(s) == [t |-> "str", v |-> <<s>>, n |-> 0]
Num(d) == [t |-> "num", v |-> <<d>>, n |-> 0]
Arr(xs) == [t |-> "arr", v |-> xs, n |-> 0]
Bool(b) == [t |-> "bool", v |-> <<IF b THEN "true" ELSE "false">>, n |-> 0]
Null == [t |-> "null", v |-> << >>, n |-> 0]
Undefined == [t |-> "none", v |-> << >>, n |-> 0]
EmptyObject == [t |-> "obj", v |-> << >>, n |-> 0]

\* a session object: turn in n, summary first in v, then the results of the
\* history records
SessionValue(turn, summary, results) ==
  [t |-> "obj", v |-> <<summary>> \o results, n |-> turn]

summaryOf(s) == s.v[1]
resultsOf(s) == Tail(s.v)

\* An object is the sequence of its own properties in insertion order.
Entry(k, val) == [k |-> k, val |-> val]

KeysOf(o) == {o[i].k : i \in DOMAIN o}

\* o[k]
Get(o, k) ==
  IF k \in KeysOf(o) THEN o[CHOOSE i \in DOMAIN o : o[i].k = k].val ELSE Undefined

\* o[k] = val: an existing property keeps its place, a new one goes last
Put(o, k, val) ==
  IF k \in KeysOf(o) THEN [i \in DOMAIN o |-> IF o[i].k = k THEN Entry(k, val) ELSE o[i]]
  ELSE Append(o, Entry(k, val))

KNOWN_KEYS == {"prompt", "todos", "doing", "lock", "done", "session", "macros",
               "watch", "hooks"}

\* normalizeList(v)
normalizeList(x) ==
  IF x.t = "arr" THEN x.v
  ELSE IF x.t \in {"none", "null"} \/ x = Str("") THEN << >>
  ELSE IF x.t = "obj" THEN <<"[object Object]">>
  ELSE <<x.v[1]>>

\* normalizeSession(v, maxHistory) on a JSON value (sessionId left out)
sessionOf(x, cap) ==
  IF x.t = "obj" /\ x.v # << >>
  THEN SessionValue(x.n, summaryOf(x), SliceLast(resultsOf(x), cap))
  ELSE SessionValue(0, "", << >>)

\* normalizeConfig(v, maxHistory): { ...val, lock, prompt, todos, doing,
\* done, macros, watch, hooks, session }
normalizeConfig(val, cap) ==
  LET c1 == Put(val, "lock", Bool(Get(val, "lock") = Bool(TRUE)))
      c2 == Put(c1, "prompt", IF Get(val, "prompt").t = "str"
                                THEN Get(val, "prompt") ELSE Str(""))
      c3 == Put(c2, "todos", Arr(normalizeList(Get(val, "todos"))))
      c4 == Put(c3, "doing", Arr(normalizeList(Get(val, "doing"))))
      c5 == Put(c4, "done", Arr(normalizeList(Get(val, "done"))))
      c6 == Put(c5, "macros", EmptyObject)
      c7 == Put(c6, "watch", IF Get(val, "watch").t = "str"
                               THEN Get(val, "watch") ELSE Str(""))
      c8 == Put(c7, "hooks", EmptyObject)
  IN  Put(c8, "session", sessionOf(Get(val, "session"), cap))

\* The marker file: kind "object" holds a JSON object, "empty" is a file of
\* white space, "other" a JSON value that is no object (null, an array, a
\* number), "invalid" a text JSON.parse rejects, "missing" no file.
File(kind, entries) == [kind |-> kind, entries |-> entries]

\* loadConfig(configPath, maxHistory): r is "config", "null" or "throw"
loadConfig(file, cap) ==
  IF file.kind \in {"missing", "invalid"} THEN [r |-> "throw", config |-> << >>]
  ELSE IF file.kind = "empty" THEN [r |-> "config", config |-> normalizeConfig(<< >>, cap)]
  ELSE IF file.kind = "other" THEN [r |-> "null", config |-> << >>]
  ELSE [r |-> "config", config |-> normalizeConfig(file.entries, cap)]

\* saveConfig(configPath, config): the file after the rename
saveConfig(c) == File("object", c)

\* stringifyMeta(v): how the value is rendered and the strings rendered
stringifyMeta(x) ==
  [how |-> IF x.t = "arr" THEN "join" ELSE IF x.t = "obj" THEN "json" ELSE "string",
   v |-> IF x.t = "null" THEN <<"null">> ELSE x.v]

\* one element of parts; the prompt is parts.join("\n")
Part(sec, k, v) == [sec |-> sec, k |-> k, v |-> v]

Blank == Part("", "", << >>)

\* the "(none)" of an empty list
ListPart(sec, xs) == Part(sec, "", IF xs = << >> THEN <<"(none)">> ELSE xs)

\* the Metadata lines of the entries meta
MetaParts(meta) ==
  [i \in DOMAIN meta |-> Part("meta", meta[i].k, stringifyMeta(meta[i].val))]

\* buildPrompt that renders every entry of the config
buildPromptAllKeys(c, userInput) ==
  << Part("head", "", << >>), Blank >>
  \o (IF Get(c, "prompt").v # <<"">>
      THEN << Part("context", "", Get(c, "prompt").v), Blank >> ELSE << >>)
  \o << ListPart("todos", Get(c, "todos").v),
        ListPart("doing", Get(c, "doing").v),
        ListPart("done", Get(c, "done").v) >>
  \o (IF summaryOf(Get(c, "session")) # ""
      THEN << Blank, Part("summary", "", <<summaryOf(Get(c, "session"))>>) >>
      ELSE << >>)
  \o (IF c # << >>
      THEN << Blank, Part("metahead", "", << >>) >> \o MetaParts(c) ELSE << >>)
  \o (IF userInput # "" THEN << Blank, Part("input", "", <<userInput>>) >> ELSE << >>)
  \o << Blank, Part("tail", "", << >>), Part("tail", "", << >>) >>

\* buildPrompt(config, userInput)
buildPrompt(c, userInput) ==
  LET meta == SelectSeq(c, LAMBDA en : en.k \notin KNOWN_KEYS)
  IN
  << Part("head", "", << >>), Blank >>
  \o (IF Get(c, "prompt").v # <<"">>
      THEN << Part("context", "", Get(c, "prompt").v), Blank >> ELSE << >>)
  \o << ListPart("todos", Get(c, "todos").v),
        ListPart("doing", Get(c, "doing").v),
        ListPart("done", Get(c, "done").v) >>
  \o (IF summaryOf(Get(c, "session")) # ""
      THEN << Blank, Part("summary", "", <<summaryOf(Get(c, "session"))>>) >>
      ELSE << >>)
  \o (IF meta # << >>
      THEN << Blank, Part("metahead", "", << >>) >> \o MetaParts(meta) ELSE << >>)
  \o (IF userInput # "" THEN << Blank, Part("input", "", <<userInput>>) >> ELSE << >>)
  \o << Blank, Part("tail", "", << >>), Part("tail", "", << >>) >>

\* the results a turn can end with; the second starts with "error:"
DocResults == {"did it", "error: exit 1"}

IsErrorResult(r) == r = "error: exit 1"

\* the close handler's record of a real completion (lines 880-917):
\* turn += 1, the summary of a non-error result, the record pushed and the
\* history trimmed
recordTurn(c, result, cap) ==
  LET s == Get(c, "session")
  IN  Put(c, "session",
          SessionValue(s.n + 1,
                       IF IsErrorResult(result) THEN summaryOf(s) ELSE result,
                       SliceLast(Append(resultsOf(s), result), cap)))

\* a close handler that saves the config as it is in memory
saveFromMemory(c, file, cap) == c

\* the reload of lines 919-930: the fields of a config that loads replace
\* those in memory; a file that does not load leaves them (with a warning
\* when loadConfig throws)
reloadFields(c, file, cap) ==
  LET fresh == loadConfig(file, cap)
  IN  IF fresh.r # "config" THEN c
      ELSE Put(Put(Put(Put(c, "todos", Get(fresh.config, "todos")),
                       "doing", Get(fresh.config, "doing")),
                   "done", Get(fresh.config, "done")),
               "prompt", Get(fresh.config, "prompt"))

\* no marker followed
NoFile == File("missing", << >>)

\* no marker followed; found is the file the close handler of the turn just
\* ended read, turns the number of turns completed in the run
NoDoc == [mem |-> << >>, disk |-> NoFile, found |-> NoFile, prompt |-> << >>,
          phase |-> "off", turns |-> 0]

\* ------------------------------------------------------- stream framing
\* A text is followed here as its characters: "j" stands for a character of
\* a well-formed JSON value, "x" for one that makes its line unparseable,
\* " " for white space, "\n" for the newline.
Chars == {"j", "x", " ", "\n"}

\* String.prototype.indexOf("\n"), 1-based; 0 when absent
IndexOfNewline(buf) ==
  IF \E i \in DOMAIN buf : buf[i] = "\n"
  THEN CHOOSE i \in DOMAIN buf : buf[i] = "\n" /\ \A k \in 1..(i - 1) : buf[k] # "\n"
  ELSE 0

IsSpace(c) == c \in {" ", "\n"}

\* String.prototype.trim()
RECURSIVE Trim(_)
Trim(t) ==
  IF t = << >> THEN t
  ELSE IF IsSpace(Head(t)) THEN Trim(Tail(t))
  ELSE IF IsSpace(t[Len(t)]) THEN Trim(SubSeq(t, 1, Len(t) - 1))
  ELSE t

\* the stream state with no process followed
NoStream == [text |-> << >>, fed |-> 0, chunks |-> 0, lineBuf |-> << >>,
             lines |-> << >>, records |-> << >>, ended |-> TRUE]

\* JSON.parse(line) does not throw
Parses(line) == \A i \in DOMAIN line : line[i] # "x"

\* the onLine callback of the stdout handler (lines 812-820): the line is
\* delivered; it is decoded to a record unless JSON.parse throws
onLine(st, line) ==
  [st EXCEPT !.lines = Append(@, line),
             !.records = IF Parses(line) THEN Append(@, line) ELSE @]

\* the while loop of consumeStreamChunk over buf
RECURSIVE consumeLines(_, _)
consumeLines(st, buf) ==
  LET i == IndexOfNewline(buf)
      line == Trim(SubSeq(buf, 1, i - 1))
      rest == SubSeq(buf, i + 1, Len(buf))
  IN  IF i = 0 THEN [st EXCEPT !.lineBuf = buf]
      ELSE consumeLines(IF line # << >> THEN onLine(st, line) ELSE st, rest)

\* a consumeStreamChunk that starts each chunk with an empty line buffer
consumeChunkAlone(st, chunk) == consumeLines(st, chunk)

\* consumeStreamChunk(chunk, state, onLine)
consumeStreamChunk(st, chunk) == consumeLines(st, st.lineBuf \o chunk)

\* consumeStreamTail(state, onLine)
consumeStreamTail(st) ==
  LET line == Trim(st.lineBuf)
  IN  [(IF line # << >> THEN onLine(st, line) ELSE st) EXCEPT !.lineBuf = << >>]

\* ------------------------------------------------------------- watcher
\* resolveHookAction(config, hookName): a hook string is modelled by
\* whether it starts with "!" and whether the rest is blank
resolveHookAction(hook) ==
  IF hook = "" THEN "none"
  ELSE IF hook = "!" THEN "none"
  ELSE IF hook = "!sh" THEN "shell"
  ELSE "prompt"

\* runProjectHook(project, hookName, runtime, onAgentDone): startedAgent
hookStartsAgent(p) == resolveHookAction(config[p].afterWatchSuccess) = "prompt"

\* what a shell hook run by spawnSync returned: the number of non-empty
\* lines of its stdout and its exit status
HookRun(lines, status) == [lines |-> lines, status |-> status]
NoHookRun == HookRun(0, 0)
ShellRuns == {HookRun(2, 0), HookRun(0, 1)}
HookRuns(p) ==
  IF resolveHookAction(config[p].afterWatchSuccess) = "shell" THEN ShellRuns
  ELSE {NoHookRun}

\* runProjectHook(project, "afterWatchSuccess", runtime, onAgentDone); h is
\* what the shell returned
runProjectHook(w, p, h) ==
  LET action == resolveHookAction(config[p].afterWatchSuccess)
      w1 == rmLog(w, p, "-> hook shell")
      w2 == [w1 EXCEPT !.out = @ \o [k \in 1..h.lines |->
                                       Line("agent", p, "[hook]", "", k)]]
      w3 == IF h.status # 0 THEN rmLog(w2, p, "-> hook exit") ELSE w2
      w4 == flushBufferedProgress(rmLog(w, p, "-> hook prompt"), p)
  IN  IF action = "none" THEN w
      ELSE IF action = "shell" THEN w3
      ELSE spawnAgent([w4 EXCEPT !.holdStream[p] = FALSE], p,
                      config[p].afterWatchSuccess)

\* spawnWatcher(project, onDone), after its two early returns
spawnWatcher(w, p) ==
  LET ws == Append(w.watchers[p], NewWatcher)
  IN  [w EXCEPT !.watchers[p] = ws,
                !.watchStopReason[p] = "",
                !.watchProc[p] = Len(ws),
                !.state[p] = "watching"]

\* an onWatchDone that runs the hook whenever the watcher was not stopped
onWatchDoneAnyExit(w, p, code, stopped, h) ==
  LET w1 == [w EXCEPT !.state[p] = "idle", !.watchProc[p] = 0]
      w2 == runProjectHook(rmLog(w1, p, IF code = 0 THEN "[watch ready]"
                                        ELSE "[watch exit]"), p, h)
  IN  IF stopped
      THEN Wake([rmLog(w1, p, "[watch stopped]") EXCEPT !.queue = PushIfAbsent(@, p)])
      ELSE IF hookStartsAgent(p) THEN w2
      ELSE Wake([w2 EXCEPT !.queue = PushIfAbsent(@, p)])

\* onWatchDone(project, meta); h is what a shell hook returned
onWatchDone(w, p, code, stopped, h) ==
  LET w1 == [w EXCEPT !.state[p] = "idle", !.watchProc[p] = 0]
      w2 == IF stopped THEN rmLog(w1, p, "[watch stopped]")
            ELSE IF code = 0
            THEN runProjectHook(rmLog(w1, p, "[watch ready]"), p, h)
            ELSE rmLog(w1, p, "[watch exit]")
  IN  IF ~stopped /\ code = 0 /\ hookStartsAgent(p) THEN w2
      ELSE Wake([w2 EXCEPT !.queue = PushIfAbsent(@, p)])

\* proc.on("close") of the i-th live watcher of p
watchClose(w, p, i, code, h) ==
  LET stop == w.watchStopReason[p]
      w1 == [w EXCEPT !.watchStopReason[p] = "",
                      !.watchProc[p] = 0,
                      !.watchers[p] = RemoveAt(@, i)]
  IN  onWatchDone(w1, p, code, stop # "", h)

\* ------------------------------------------------ transition functions
\* a stopLoop that stops the running process whether or not a loop is active
stopLoopAnyProc(w, p, why) ==
  LET w1 == [w EXCEPT !.loop[p] = NoLoop]
      w2 == IF w1.proc[p] # 0
            THEN [KillProc(w1, p) EXCEPT !.stopReason[p] = why,
                                         !.proc[p] = 0,
                                         !.state[p] = "idle"]
            ELSE w1
  IN  [w2 EXCEPT !.queue = PushIfAbsent(@, p)]

\* stopLoop(project, queue, why)
stopLoop(w, p, why) ==
  IF w.loop[p] = NoLoop THEN w
  ELSE LET w1 == [w EXCEPT !.loop[p] = NoLoop]
           w2 == IF w1.proc[p] # 0
                 THEN [KillProc(w1, p) EXCEPT !.stopReason[p] = why,
                                              !.proc[p] = 0,
                                              !.state[p] = "idle"]
                 ELSE w1
       IN  [w2 EXCEPT !.queue = PushIfAbsent(@, p)]

stopLoopReturns(w, p) == w.loop[p] # NoLoop

\* stopWatcher(project, why)
stopWatcher(w, p, why) ==
  IF w.watchProc[p] = 0 THEN w
  ELSE [KillWatchProc(w, p) EXCEPT !.watchStopReason[p] = why,
                                   !.watchProc[p] = 0]

\* a killProject that only requests the kill and leaves state and queue to
\* the exit handler
killProjectDeferred(w, p, why) ==
  LET w1 == IF w.proc[p] # 0
            THEN [KillProc(w, p) EXCEPT !.loop[p] = NoLoop, !.stopReason[p] = why]
            ELSE w
  IN  IF w1.watchProc[p] # 0
      THEN [KillWatchProc(w1, p) EXCEPT !.watchStopReason[p] = why]
      ELSE w1

\* killProject(project, queue, why)
killProject(w, p, why) ==
  LET w1 == IF w.proc[p] # 0
            THEN [KillProc(w, p) EXCEPT !.loop[p] = NoLoop,
                                        !.stopReason[p] = why,
                                        !.proc[p] = 0]
            ELSE w
      w2 == stopWatcher(w1, p, why)
      killed == w.proc[p] # 0 \/ w.watchProc[p] # 0
  IN  IF ~killed THEN w
      ELSE [w2 EXCEPT !.state[p] = "idle",
                      !.snoozeUntil[p] = 0,
                      !.queue = PushIfAbsent(@, p)]

killProjectReturns(w, p) == w.proc[p] # 0 \/ w.watchProc[p] # 0

\* dropProject(project, queue)
dropProject(w, p) ==
  LET w1 == stopWatcher(stopLoop(w, p, "dropped"), p, "dropped")
  IN  [w1 EXCEPT !.state[p] = "dropped",
                 !.snoozeUntil[p] = 0,
                 !.queue = SpliceOut(@, p)]

\* snoozeProject(project, queue, ms)
snoozeProject(w, p, ms) ==
  LET w1 == stopWatcher(stopLoop(w, p, "snoozed"), p, "snoozed")
  IN  [w1 EXCEPT !.state[p] = "snoozed",
                 !.snoozeUntil[p] = now + ms,
                 !.queue = SpliceOut(@, p)]

\* refreshSnoozed(projects, queue): the projects in array order
RECURSIVE refreshFrom(_, _)
refreshFrom(w, k) ==
  IF k > Len(projects) THEN w
  ELSE LET p == projects[k]
       IN  IF w.state[p] # "snoozed" THEN refreshFrom(w, k + 1)
           ELSE IF w.snoozeUntil[p] = 0 \/ w.snoozeUntil[p] > now
           THEN refreshFrom(w, k + 1)
           ELSE refreshFrom([w EXCEPT !.state[p] = "idle",
                                      !.snoozeUntil[p] = 0,
                                      !.queue = PushIfAbsent(@, p)], k + 1)

refreshSnoozed(w) == refreshFrom(w, 1)

\* getNextSnoozeMs(projects): the due time now + ms, NoTimer for null
getNextSnoozeMs(w) ==
  LET S == {p \in Proj : w.state[p] = "snoozed" /\ w.snoozeUntil[p] # 0}
      ms(p) == Max(0, w.snoozeUntil[p] - now)
  IN  IF S = {} THEN NoTimer
      ELSE now + ms(CHOOSE p \in S : \A r \in S : ms(p) <= ms(r))

\* rotateQueue(queue, project)
rotateQueue(q, p) == IF IndexOf(q, p) = 0 THEN q ELSE Append(SpliceOut(q, p), p)

\* the idle projects of a queue, in queue order
IdleOf(w, q) == SelectSeq(q, LAMBDA p : w.state[p] = "idle")

\* a skip that sends the project to the tail whatever the count
skipToTail(w, p, rounds) == Append(SpliceOut(w.queue, p), p)

\* skipProjectRounds(queue, project, rounds): the new queue
skipProjectRounds(w, p, rounds) ==
  LET n == IF rounds > 0 THEN rounds ELSE 1
      q1 == SpliceOut(w.queue, p)
      idle == IdleOf(w, q1)
      steps == Min(n, Len(idle))
      j == IndexOf(q1, idle[steps])
  IN  IF IndexOf(w.queue, p) = 0 THEN w.queue
      ELSE IF Len(idle) = 0 THEN Append(q1, p)
      ELSE SubSeq(q1, 1, j) \o <<p>> \o SubSeq(q1, j + 1, Len(q1))

skipReturns(w, p, rounds) ==
  LET n == IF rounds > 0 THEN rounds ELSE 1
      idle == IdleOf(w, SpliceOut(w.queue, p))
  IN  IF IndexOf(w.queue, p) = 0 THEN 0 ELSE Min(n, Len(idle))

\* targets that leave out the project at the prompt
collectOtherTargets(w) ==
  SelectSeq(projects, LAMBDA p : w.state[p] = "idle" /\ p # cur)

\* collectBroadcastTargets(projects), in array order
collectBroadcastTargets(w) == SelectSeq(projects, LAMBDA p : w.state[p] = "idle")


\* cleanup(): the projects in array order
RECURSIVE cleanupFrom(_, _)
cleanupFrom(w, k) ==
  IF k > Len(projects) THEN w
  ELSE LET p == projects[k]
           w1 == IF w.proc[p] # 0
                 THEN [KillProc(w, p) EXCEPT !.proc[p] = 0]
                 ELSE w
           w2 == IF w1.watchProc[p] # 0
                 THEN [KillWatchProc(w1, p) EXCEPT !.watchStopReason[p] = "shutdown",
                                                   !.watchProc[p] = 0]
                 ELSE w1
       IN  cleanupFrom(w2, k + 1)

cleanup(w) == cleanupFrom(w, 1)

\* runScopedProjectCommand(ctx, sel, apply, ...): the projects apply is
\* called on, in order: the current one, the one named, or all in array order
Target(sel) == IF sel = "current" THEN cur ELSE sel

ScopeOf(sel) == IF sel = "all" THEN projects ELSE << Target(sel) >>

RECURSIVE stopEach(_, _, _)
stopEach(w, ps, why) ==
  IF ps = << >> THEN w ELSE stopEach(stopLoop(w, Head(ps), why), Tail(ps), why)

RECURSIVE killEach(_, _, _)
killEach(w, ps, why) ==
  IF ps = << >> THEN w ELSE killEach(killProject(w, Head(ps), why), Tail(ps), why)

\* --------------------------------------------------------------- actions
Fixed == UNCHANGED << projects, maxHistory, config, now, marker, stream, doc >>
Static == Fixed /\ UNCHANGED completed

\* a REPL command returned: "continue" to the top of the main loop
Return(w) ==
  /\ Commit([w EXCEPT !.pc = "select"])
  /\ UNCHANGED cur
  /\ Static

AtPrompt == pc = "prompt"

\* the live agent processes of all projects
RECURSIVE SumOver(_, _)
SumOver(f, S) ==
  IF S = {} THEN 0
  ELSE LET x == CHOOSE y \in S : TRUE IN f[x] + SumOver(f, S \ {x})

LiveAgents == SumOver([p \in Proj |-> Len(agents[p])], Proj)
LiveWatchers == SumOver([p \in Proj |-> Len(watchers[p])], Proj)

\* fewer than n agent processes are alive
Room(n) == LiveAgents < n

\* a progress line of p is printed, or is held back with fewer than n others
HeldRoom(p, n) == holdStream[p] => Len(pendingStream[p]) < n

\* main() up to its loop: setupProject for every discovered project
SetupProjects ==
  /\ pc = "setup"
  /\ Commit([W EXCEPT !.session = [p \in Proj |-> setupSession(marker[p], maxHistory, "u0")],
                      !.pc = "select"])
  /\ UNCHANGED cur
  /\ Static

\* the idle projects in the order of the discovery array
idleInDiscovery(w) == SelectSeq(projects, LAMBDA p : w.state[p] = "idle")

\* const idle = queue.filter((p) => p.state === "idle") (line 1908)
idleInRotation(w) == IdleOf(w, w.queue)

\* a test that looks at the working projects only
anyWorking(w) == \E p \in Proj : w.state[p] = "working"

\* working.length || snoozed.length || watching.length (lines 1909-1913)
anyActive(w) == \E p \in Proj : w.state[p] \in {"working", "watching", "snoozed"}

\* the top of the main loop (lines 1905-1939)
MainSelect ==
  /\ pc = "select"
  /\ LET w == refreshSnoozed(W)
         idle == idleInRotation(w)
         busy == anyActive(w)
     IN  IF Len(idle) = 0 /\ ~busy
         THEN Commit([w EXCEPT !.pc = "done"]) /\ cur' = NoProject
         ELSE IF Len(idle) = 0
         THEN /\ Commit([w EXCEPT !.pc = "wait", !.wakeIdle = TRUE,
                                  !.timer = getNextSnoozeMs(w)])
              /\ cur' = NoProject
         ELSE Commit([w EXCEPT !.pc = "prompt"]) /\ cur' = idle[1]
  /\ Static

\* the setTimeout(finish, ms) of the idle wait
TimerFire ==
  /\ pc = "wait"
  /\ timer # NoTimer
  /\ now >= timer
  /\ Commit([W EXCEPT !.wakeIdle = FALSE, !.timer = NoTimer, !.pc = "select"])
  /\ UNCHANGED cur
  /\ Static

Tick ==
  /\ now < MaxTime
  /\ now' = now + 1
  /\ UNCHANGED << projects, maxHistory, config, state, proc, stopReason, loop,
                  snoozeUntil, holdStream, watchProc, watchStopReason, session,
                  queue, totalCost, wakeIdle, timer, pc, cur, agents, watchers,
                  marker, completed, pendingStream, streamOut, stream, doc >>

\* /work <input>
CmdWork(input) ==
  /\ AtPrompt
  /\ LET w0 == [flushBufferedProgress(W, cur) EXCEPT !.holdStream[cur] = FALSE]
         w1 == spawnAgent(rmLog(w0, cur, "-> starting agent"), cur, input)
         w2 == [w1 EXCEPT !.queue = rotateQueue(SpliceOut(@, cur), cur)]
     IN  Return(w2)

\* /macro run <name>
CmdMacro ==
  /\ AtPrompt
  /\ config[cur].macro # ""
  /\ LET w0 == [flushBufferedProgress(W, cur) EXCEPT !.holdStream[cur] = FALSE]
         w1 == spawnAgent(rmLog(w0, cur, "-> starting agent with macro"), cur,
                          config[cur].macro)
         w2 == [w1 EXCEPT !.queue = rotateQueue(SpliceOut(@, cur), cur)]
     IN  Return(w2)

\* /loop <n> <goal>
CmdLoop(n, goal) ==
  /\ AtPrompt
  /\ LET w0 == [flushBufferedProgress(W, cur)
                  EXCEPT !.loop[cur] = [max |-> n, goal |-> goal, done |-> 0],
                         !.holdStream[cur] = FALSE]
         w1 == spawnAgent(rmLog(w0, cur, "-> starting loop"), cur, goal)
         w2 == [w1 EXCEPT !.queue = rotateQueue(SpliceOut(@, cur), cur)]
     IN  Return(w2)

\* /stop [project|all]
CmdStop(sel) ==
  /\ AtPrompt
  /\ LET w1 == stopEach(W, ScopeOf(sel), "requested")
         none == \A p \in Proj : Includes(ScopeOf(sel), p) => ~stopLoopReturns(W, p)
     IN  Return(IF ~none THEN w1
                ELSE IF sel = "all" THEN rmLog(w1, NoProject, "-> no active loops to stop")
                ELSE rmLog(w1, Target(sel), "-> no active loop for"))

\* /kill [project|all]
CmdKill(sel) ==
  /\ AtPrompt
  /\ LET w1 == killEach(W, ScopeOf(sel), "requested")
         none == \A p \in Proj : Includes(ScopeOf(sel), p) => ~killProjectReturns(W, p)
     IN  Return(IF ~none THEN w1
                ELSE IF sel = "all" THEN rmLog(w1, NoProject, "-> no running agents to kill")
                ELSE rmLog(w1, Target(sel), "-> no running agent for"))

\* /drop
CmdDrop ==
  /\ AtPrompt
  /\ LET w1 == rmLog(dropProject(W, cur), cur, "-> dropped")
     IN  Return([w1 EXCEPT !.queue = rotateQueue(@, cur)])

\* /snooze <n>
CmdSnooze(ms) ==
  /\ AtPrompt
  /\ LET w1 == rmLog(snoozeProject(W, cur, ms), cur, "-> snoozed")
     IN  Return([w1 EXCEPT !.queue = rotateQueue(@, cur)])

\* /skip [rounds]
CmdSkip(rounds) ==
  /\ AtPrompt
  /\ LET w1 == [W EXCEPT !.queue = skipProjectRounds(W, cur, rounds)]
     IN  Return(IF skipReturns(W, cur, rounds) = 0
                THEN rmLog(w1, cur, "-> no other idle projects to skip")
                ELSE rmLog(w1, cur, "-> skipped"))

\* /broadcast <input>
RECURSIVE broadcastTo(_, _, _, _)
broadcastTo(w, targets, k, input) ==
  IF k > Len(targets) THEN w
  ELSE LET p == targets[k]
           w0 == [flushBufferedProgress(w, p) EXCEPT !.holdStream[p] = FALSE]
           w1 == spawnAgent(rmLog(w0, p, "-> starting agent"), p, input)
       IN  broadcastTo([w1 EXCEPT !.queue = SpliceOut(@, p)], targets, k + 1, input)

CmdBroadcast(input) ==
  /\ AtPrompt
  /\ LET targets == collectBroadcastTargets(W)
     IN  Return(IF targets = << >>
                THEN rmLog(W, NoProject, "-> no idle projects to broadcast to")
                ELSE broadcastTo(rmLog(W, NoProject, "-> broadcasting"),
                                 targets, 1, input))

\* /watch
CmdWatchRun ==
  /\ AtPrompt
  /\ IF watchProc[cur] # 0
     THEN Return(rmLog(W, cur, "-> already watching"))
     ELSE IF config[cur].watch = ""
     THEN Return(rmLog(W, cur, "-> no watch defined for"))
     ELSE LET w1 == spawnWatcher(rmLog(W, cur, "-> starting watcher"), cur)
          IN  Return([w1 EXCEPT !.queue = rotateQueue(SpliceOut(@, cur), cur)])

\* /watch, while the watcher it would start is one the model can follow
CmdWatch ==
  /\ AtPrompt
  /\ watchProc[cur] = 0 /\ config[cur].watch # "" => LiveWatchers < MaxWatchers
  /\ CmdWatchRun

\* /fresh; uuid is what randomUUID() returns, never the token in use
CmdFresh(uuid) ==
  /\ AtPrompt
  /\ uuid # session[cur].sessionId
  /\ Return(rmLog(resetSession(stopLoop(W, cur, "session reset"), cur, uuid),
                  cur, "-> reset session"))

\* /revert, git having reverted the last roundsman commit
CmdRevert ==
  /\ AtPrompt
  /\ Return(rmLog(revertLastTurn(W, cur), cur, "-> reverted last turn"))

\* /status, /loops, /usage, /view, /log, /help, a failed /revert, a shell
\* passthrough, an unknown command: nothing changes
CmdOther ==
  /\ AtPrompt
  /\ Return(W)

\* /quit
CmdQuit ==
  /\ AtPrompt
  /\ Commit([rmLog(cleanup(W), NoProject, "Total cost") EXCEPT !.pc = "done"])
  /\ UNCHANGED cur
  /\ Static

\* handlers of background processes run while the main loop is suspended
Suspended == pc \in {"wait", "prompt", "done"}

\* the close notification of the i-th live agent of p, with output o
AgentClose(p, i, o) ==
  /\ Suspended
  /\ i \in DOMAIN agents[p]
  /\ Commit(agentClose(W, p, i, o))
  /\ completed' = IF stopReason[p] = "" THEN completed + 1 ELSE completed
  /\ UNCHANGED cur
  /\ Fixed

\* an input-wait signal on stdout or stderr of the i-th live agent of p
AgentWait(p, i) ==
  /\ Suspended
  /\ i \in DOMAIN agents[p]
  /\ Commit(stopForInputWait([emitProgress(W, p, WaitLine(p))
                                EXCEPT !.holdStream[p] = TRUE], p, i))
  /\ UNCHANGED cur
  /\ Static

\* a stdout event of the i-th live agent of p that is rendered as progress
\* line n (lines 827-828)
AgentData(p, i, n) ==
  /\ Suspended
  /\ i \in DOMAIN agents[p]
  /\ Commit(emitProgress(W, p, Progress(p, "[agent]", n)))
  /\ UNCHANGED cur
  /\ Static

\* a stderr line of the i-th live agent of p, wait telling whether it
\* contains "waiting for user input" (lines 832-844)
AgentStderr(p, i, wait) ==
  /\ Suspended
  /\ i \in DOMAIN agents[p]
  /\ LET w1 == emitProgress(W, p, Progress(p, "[stderr]", 0))
     IN  Commit(IF wait
                THEN stopForInputWait([w1 EXCEPT !.holdStream[p] = TRUE], p, i)
                ELSE w1)
  /\ UNCHANGED cur
  /\ Static

\* a stdout line of the i-th live watcher of p (lines 959-966)
WatchData(p, i) ==
  /\ Suspended
  /\ i \in DOMAIN watchers[p]
  /\ Commit(agentLog(W, p, "[watch]", "", 0))
  /\ UNCHANGED cur
  /\ Static

\* "spawn error: <message>"
SpawnErrorText == Text(FALSE, 30)

\* proc.on("error") of the i-th live agent of p (lines 941-943): the process
\* could not be spawned or could not be killed; its close notification is
\* still to come
AgentError(p, i) ==
  /\ Suspended
  /\ i \in DOMAIN agents[p]
  /\ ~agents[p][i].failed
  /\ Commit(onAgentDone([W EXCEPT !.agents[p][i].failed = TRUE],
                        p, SpawnErrorText, 0, FALSE))
  /\ UNCHANGED cur
  /\ Static

\* proc.on("error") of the i-th live watcher of p (lines 996-999)
WatchError(p, i) ==
  /\ Suspended
  /\ i \in DOMAIN watchers[p]
  /\ ~watchers[p][i].failed
  /\ Commit(onWatchDone([W EXCEPT !.watchers[p][i].failed = TRUE,
                                  !.watchProc[p] = 0],
                        p, 1, FALSE, NoHookRun))
  /\ UNCHANGED cur
  /\ Static

\* the close notification of the i-th live watcher of p, exit code code,
\* where a shell hook, if run, returns h
WatchCloseWith(p, i, code, h) ==
  /\ Suspended
  /\ i \in DOMAIN watchers[p]
  /\ Commit(watchClose(W, p, i, code, h))
  /\ UNCHANGED cur
  /\ Static

\* the close notification of the i-th live watcher of p
WatchClose(p, i, code) == \E h \in HookRuns(p) : WatchCloseWith(p, i, code, h)


\* ------------------------------------------------------- specifications
\* what an agent process may print and return
Out(code, stdout, seen, result, cost, sid, tailWait) ==
  [ code |-> code, stdout |-> stdout, seen |-> seen, result |-> result,
    cost |-> cost, turns |-> cost, sid |-> sid, json |-> FALSE,
    jresult |-> EmptyText, jcost |-> 0, jturns |-> 0, jsid |-> "",
    stderr |-> EmptyText, tailWait |-> tailWait ]

\* a stream with a result and no cost field
OkFree == Out(0, Text(FALSE, 40), TRUE, Text(FALSE, 10), 0, "", FALSE)
\* a stream with a result and a cost
OkOut == Out(0, Text(FALSE, 40), TRUE, Text(FALSE, 10), 1, "", FALSE)
\* exit code 1 and nothing printed
FailOut == Out(1, EmptyText, FALSE, EmptyText, 0, "", FALSE)
\* a stream with a result longer than a record keeps, and a session id
LongOut == Out(0, Text(FALSE, 3000), TRUE, Text(FALSE, 2500), 1, "s1", FALSE)
\* no stream event, the whole stdout one JSON value with a session id
JsonOut ==
  [Out(0, Text(FALSE, 60), FALSE, EmptyText, 0, "", FALSE)
     EXCEPT !.json = TRUE, !.jresult = Text(FALSE, 20), !.jcost = 1, !.jsid = "s2"]

\* no stream event, the whole stdout one JSON value without a result text
JsonEmpty ==
  [Out(0, Text(FALSE, 30), FALSE, EmptyText, 0, "", FALSE)
     EXCEPT !.json = TRUE, !.jcost = 1]

\* the caps that keep the counters of a run finite
TurnsLeft(p, cap) == stopReason[p] = "" => completed < cap

\* a marker that holds no session block
NoSession ==
  Typed(FALSE, [sessionId |-> Typed(FALSE, ""), turn |-> Typed(FALSE, 0),
                summary |-> Typed(FALSE, EmptyText), history |-> Typed(FALSE, << >>)])

Marker(watch, hook, macro) == [watch |-> watch, afterWatchSuccess |-> hook, macro |-> macro]

InitProgram(ps, cfg, cap, raws) ==
  /\ projects = ps
  /\ maxHistory = cap
  /\ config = cfg
  /\ marker = raws
  /\ completed = 0
  /\ state = [p \in DOMAIN cfg |-> "idle"]
  /\ proc = [p \in DOMAIN cfg |-> 0]
  /\ stopReason = [p \in DOMAIN cfg |-> ""]
  /\ loop = [p \in DOMAIN cfg |-> NoLoop]
  /\ snoozeUntil = [p \in DOMAIN cfg |-> 0]
  /\ holdStream = [p \in DOMAIN cfg |-> FALSE]
  /\ watchProc = [p \in DOMAIN cfg |-> 0]
  /\ watchStopReason = [p \in DOMAIN cfg |-> ""]
  /\ session = [p \in DOMAIN cfg |-> NotLoaded]
  /\ queue = ps
  /\ totalCost = 0
  /\ wakeIdle = FALSE
  /\ timer = NoTimer
  /\ pc = "setup"
  /\ cur = NoProject
  /\ now = 0
  /\ agents = [p \in DOMAIN cfg |-> << >>]
  /\ watchers = [p \in DOMAIN cfg |-> << >>]
  /\ pendingStream = [p \in DOMAIN cfg |-> << >>]
  /\ streamOut = << >>

\* a run in which no process output is followed character by character
InitRun(ps, cfg, cap, raws) ==
  /\ InitProgram(ps, cfg, cap, raws)
  /\ stream = NoStream
  /\ doc = NoDoc

Selectors == {"current", "all"} \cup Proj

\* --- scheduling: two projects, agent turns, loops, a watcher, kill and stop
Init ==
  InitRun(<<"a", "b">>,
          [a |-> Marker("make", "", ""), b |-> Marker("", "", "")],
          1, [a |-> NoSession, b |-> NoSession])

Next ==
  \/ SetupProjects
  \/ MainSelect
  \/ Room(MaxProcs) /\ CmdWork("w")
  \/ Room(MaxProcs) /\ CmdLoop(2, "w")
  \/ \E sel \in Selectors : CmdStop(sel)
  \/ \E sel \in Selectors : CmdKill(sel)
  \/ CmdSkip(1)
  \/ CmdWatch
  \/ \E p \in Proj : \E i \in 1..MaxProcs : \E o \in {OkFree, FailOut} :
       TurnsLeft(p, MaxTurn) /\ AgentClose(p, i, o)
  \/ \E p \in Proj : \E i \in 1..MaxWatchers : \E code \in {0, 1} :
       WatchClose(p, i, code)

Spec == Init /\ [][Next]_vars

\* --- the same with /drop
NextDrop == Next \/ CmdDrop

SpecDrop == Init /\ [][NextDrop]_vars

\* --- rotation: turns, loops and the watcher at project a, /snooze and the
\* clock, /kill and /stop from either prompt
NextRound ==
  \/ SetupProjects
  \/ MainSelect
  \/ cur = "a" /\ Room(MaxRoundProcs) /\ CmdWork("w")
  \/ cur = "a" /\ Room(MaxRoundProcs) /\ CmdLoop(2, "w")
  \/ \E sel \in Selectors : CmdStop(sel)
  \/ \E sel \in Selectors : CmdKill(sel)
  \/ CmdSkip(1)
  \/ CmdWatch
  \/ now + 1 <= MaxTime /\ CmdSnooze(1)
  \/ Suspended /\ Tick
  \/ TimerFire
  \/ \E p \in Proj : \E i \in 1..MaxRoundProcs : \E o \in {OkFree, FailOut} :
       TurnsLeft(p, MaxRoundTurn) /\ AgentClose(p, i, o)
  \/ \E p \in Proj : \E i \in 1..MaxWatchers : \E code \in {0, 1} :
       WatchClose(p, i, code)

SpecRound == Init /\ [][NextRound]_vars

\* --- the idle wait: the rotation run in which every process that was
\* started delivers its close notification, the clock advances and a due
\* timer fires; the cap is on the turns the user starts
StartsLeft(cap) == completed + LiveAgents < cap

NextWait ==
  \/ SetupProjects
  \/ MainSelect
  \/ Room(MaxWaitProcs) /\ StartsLeft(MaxWaitTurn) /\ CmdWork("w")
  \/ cur = "b" /\ CmdKill("a")
  \/ CmdWatch
  \/ now + 1 <= MaxTime /\ CmdSnooze(1)
  \/ Suspended /\ Tick
  \/ TimerFire
  \/ \E p \in Proj : \E i \in 1..MaxWaitProcs : \E o \in {OkFree, FailOut} :
       AgentClose(p, i, o)
  \/ \E p \in Proj : \E i \in 1..MaxWatchers : \E code \in {0, 1} :
       WatchClose(p, i, code)

SomeAgentCloses ==
  \E p \in Proj : \E i \in 1..MaxWaitProcs : \E o \in {OkFree, FailOut} :
    AgentClose(p, i, o)

SomeWatcherCloses ==
  \E p \in Proj : \E i \in 1..MaxWatchers : \E code \in {0, 1} :
    WatchClose(p, i, code)

SpecWait ==
  /\ Init /\ [][NextWait]_vars
  /\ WF_vars(MainSelect)
  /\ WF_vars(TimerFire)
  /\ WF_vars(Suspended /\ Tick)
  /\ WF_vars(SomeAgentCloses)
  /\ WF_vars(SomeWatcherCloses)

\* --- the end of the run: /drop and /quit, failing agents, failing spawns,
\* a failing watcher and a failing shell hook; followed until main() returns
InitQuit ==
  InitRun(<<"a", "b">>,
          [a |-> Marker("make", "!sh", ""), b |-> Marker("", "", "")],
          1, [a |-> NoSession, b |-> NoSession])

NextQuit ==
  \/ SetupProjects
  \/ MainSelect
  \/ cur = "a" /\ Room(MaxQuitProcs) /\ CmdWork("w")
  \/ cur = "b" /\ CmdKill("a")
  \/ CmdWatch
  \/ CmdDrop
  \/ CmdQuit
  \/ CmdSnooze(1)
  \/ \E p \in Proj : \E i \in 1..MaxQuitProcs : \E o \in {OkFree, FailOut} :
       pc # "done" /\ TurnsLeft(p, MaxQuitTurn) /\ AgentClose(p, i, o)
  \/ \E p \in Proj : \E i \in 1..MaxQuitProcs : pc # "done" /\ AgentError(p, i)
  \/ \E p \in Proj : \E i \in 1..MaxWatchers : \E code \in {0, 1} :
       pc # "done" /\ WatchClose(p, i, code)
  \/ \E p \in Proj : \E i \in 1..MaxWatchers : pc # "done" /\ WatchError(p, i)

SpecQuit == InitQuit /\ [][NextQuit]_vars

\* --- broadcast: three projects, turns that report a cost, /kill of a from
\* b's prompt
InitCast ==
  InitRun(<<"a", "b", "c">>,
          [a |-> Marker("", "", ""), b |-> Marker("", "", ""), c |-> Marker("", "", "")],
          MAX_HISTORY, [a |-> NoSession, b |-> NoSession, c |-> NoSession])

\* the agents a /broadcast would start fit under the cap
RoomForCast(n) == LiveAgents + Len(collectBroadcastTargets(W)) <= n

NextCast ==
  \/ SetupProjects
  \/ MainSelect
  \/ cur = "a" /\ Room(MaxCastProcs) /\ CmdWork("w")
  \/ cur = "b" /\ CmdKill("a")
  \/ RoomForCast(MaxCastProcs) /\ CmdBroadcast("all")
  \/ \E p \in Proj : \E i \in 1..MaxCastProcs : \E o \in {OkOut, FailOut} :
       TurnsLeft(p, MaxCastTurn) /\ AgentClose(p, i, o)

SpecCast == InitCast /\ [][NextCast]_vars

\* --- sessions: markers with a stored session, outputs of every shape,
\* /fresh and /revert
RawRecord(k) ==
  Typed(TRUE, [result |-> Text(FALSE, 5), cost |-> 0, turns |-> k, input |-> "old"])
\* a history entry that is not an object
RawJunk ==
  Typed(FALSE, [result |-> EmptyText, cost |-> 0, turns |-> 0, input |-> ""])

RawSession(sid, turn, hist) ==
  Typed(TRUE, [sessionId |-> Typed(TRUE, sid), turn |-> Typed(TRUE, turn),
               summary |-> Typed(TRUE, Text(FALSE, 5)), history |-> Typed(TRUE, hist)])

\* three records around a junk entry, a negative turn
Loaded3 == RawSession("m1", -3, << RawRecord(1), RawJunk, RawRecord(2), RawRecord(3) >>)
\* thirty records numbered 0..29, an empty session id
Loaded30 == RawSession("", 30, [k \in 1..30 |-> RawRecord(k - 1)])

InitSession ==
  InitRun(<<"a", "b">>, [a |-> Marker("", "", ""), b |-> Marker("", "", "")],
          2, [a |-> Loaded3, b |-> NoSession])

\* a long result whose unterminated last line is an input-wait event
TailOut == [LongOut EXCEPT !.tailWait = TRUE]

SessionOutputs == {LongOut, JsonOut, FailOut, TailOut}
UUIDs == {"u1"}

\* the user starts turns and edits the session at project a, and controls it
\* from the prompt of project b
NextSession ==
  \/ SetupProjects
  \/ MainSelect
  \/ cur = "a" /\ Room(MaxSessionProcs) /\ CmdWork("w")
  \/ cur = "a" /\ Room(MaxSessionProcs) /\ CmdLoop(2, "w")
  \/ \E sel \in Selectors : CmdStop(sel)
  \/ \E sel \in Selectors : CmdKill(sel)
  \/ CmdSkip(1)
  \/ \E u \in UUIDs : cur = "a" /\ CmdFresh(u)
  \/ cur = "a" /\ CmdRevert
  \/ \E p \in Proj : \E i \in 1..MaxSessionProcs : \E o \in SessionOutputs :
       TurnsLeft(p, MaxSessionTurn) /\ AgentClose(p, i, o)
  \/ \E p \in Proj : \E i \in 1..MaxSessionProcs :
       HeldRoom(p, MaxSessionHeld) /\ AgentWait(p, i)

SpecSession == InitSession /\ [][NextSession]_vars

\* --- history: one project, markers of several lengths under several caps
InitHistory ==
  \E c \in { <<1, NoSession>>, <<1, Loaded3>>, <<2, Loaded3>>, <<3, Loaded3>>,
            <<MAX_HISTORY, Loaded3>>, <<MAX_HISTORY, Loaded30>> } :
    InitRun(<<"a">>, [a |-> Marker("", "", "")], c[1], [a |-> c[2]])

NextHistory ==
  \/ SetupProjects
  \/ MainSelect
  \/ Room(MaxSessionProcs) /\ CmdWork("w")
  \/ \E u \in UUIDs : CmdFresh(u)
  \/ CmdRevert
  \/ \E p \in Proj : \E i \in 1..MaxSessionProcs : \E o \in {LongOut, FailOut} :
       TurnsLeft(p, MaxSessionTurn) /\ AgentClose(p, i, o)

SpecHistory == InitHistory /\ [][NextHistory]_vars

\* --- continuation: one project without a stored session, turns that
\* succeed, fail or report no result text, under history caps 1 and 2
MaxResumeTurn == 3 \* completed turns of a continuation run

InitResume ==
  \E cap \in {1, 2} :
    InitRun(<<"a">>, [a |-> Marker("", "", "")], cap, [a |-> NoSession])

ResumeOutputs == {OkFree, FailOut, JsonEmpty}

NextResume ==
  \/ SetupProjects
  \/ MainSelect
  \/ Room(MaxSessionProcs) /\ CmdWork("w")
  \/ Room(MaxSessionProcs) /\ CmdLoop(2, "g")
  \/ \E u \in UUIDs : CmdFresh(u)
  \/ \E p \in Proj : \E i \in 1..MaxSessionProcs : \E o \in ResumeOutputs :
       TurnsLeft(p, MaxResumeTurn) /\ AgentClose(p, i, o)

SpecResume == InitResume /\ [][NextResume]_vars

\* --- held output: turns, a macro and a loop at project a, progress lines,
\* input-wait signals on stdout, on stderr and in the last unterminated line,
\* /skip at either prompt
InitHold ==
  InitRun(<<"a", "b">>, [a |-> Marker("", "", "m"), b |-> Marker("", "", "")],
          2, [a |-> NoSession, b |-> NoSession])

\* a stream with a result whose unterminated last line is an input-wait event
TailFree == [OkFree EXCEPT !.tailWait = TRUE]

HoldOutputs == {OkFree, FailOut, TailFree}

NextHold ==
  \/ SetupProjects
  \/ MainSelect
  \/ cur = "a" /\ Room(MaxHoldProcs) /\ CmdWork("w")
  \/ cur = "a" /\ Room(MaxHoldProcs) /\ CmdMacro
  \/ cur = "a" /\ Room(MaxHoldProcs) /\ CmdLoop(2, "g")
  \/ CmdSkip(1)
  \/ \E p \in Proj : \E i \in 1..MaxHoldProcs : \E n \in 1..2 :
       HeldRoom(p, MaxHeld) /\ AgentData(p, i, n)
  \/ \E p \in Proj : \E i \in 1..MaxHoldProcs :
       HeldRoom(p, MaxHeld) /\ AgentWait(p, i)
  \/ \E p \in Proj : \E i \in 1..MaxHoldProcs : \E wait \in BOOLEAN :
       HeldRoom(p, MaxHeld) /\ AgentStderr(p, i, wait)
  \/ \E p \in Proj : \E i \in 1..MaxHoldProcs : \E o \in HoldOutputs :
       TurnsLeft(p, MaxHoldTurn) /\ AgentClose(p, i, o)

SpecHold == InitHold /\ [][NextHold]_vars

\* --- watcher: project a with a watch command and, from run to run, no
\* success hook, a shell hook or a prompt hook; /watch at a, /kill a from b's
\* prompt, watcher output, exits and spawn errors, the prompt hook's turn
WatchHooks == {"", "!sh", "fix"}

InitWatch ==
  \E hook \in WatchHooks :
    InitRun(<<"a", "b">>,
            [a |-> Marker("make", hook, ""), b |-> Marker("", "", "")],
            1, [a |-> NoSession, b |-> NoSession])

\* an exit that may start the prompt hook's turn waits for room for it
HookRoom(p, code) == (code = 0 /\ hookStartsAgent(p)) => Room(MaxHookProcs)

NextWatch ==
  \/ SetupProjects
  \/ MainSelect
  \/ LiveWatchers < MaxWatchProcs /\ CmdWatchRun
  \/ cur = "b" /\ CmdKill("a")
  \/ CmdSkip(1)
  \/ \E p \in Proj : \E i \in 1..MaxWatchProcs : WatchData(p, i)
  \/ \E p \in Proj : \E i \in 1..MaxWatchProcs : \E code \in {0, 1} :
       HookRoom(p, code) /\ WatchClose(p, i, code)
  \/ \E p \in Proj : \E i \in 1..MaxWatchProcs : WatchError(p, i)
  \/ \E p \in Proj : \E i \in 1..MaxHookProcs :
       TurnsLeft(p, MaxHookTurn) /\ AgentClose(p, i, OkFree)

SpecWatch == InitWatch /\ [][NextWatch]_vars

\* --- /stop: turns and loops at both projects, /stop with every selector
NextStop ==
  \/ SetupProjects
  \/ MainSelect
  \/ Room(MaxStopProcs) /\ CmdWork("w")
  \/ Room(MaxStopProcs) /\ CmdLoop(2, "w")
  \/ \E sel \in Selectors : CmdStop(sel)
  \/ CmdSkip(1)
  \/ \E p \in Proj : \E i \in 1..MaxStopProcs : \E o \in {OkFree, FailOut} :
       TurnsLeft(p, MaxStopTurn) /\ AgentClose(p, i, o)

SpecStop == Init /\ [][NextStop]_vars

\* --- /skip: three projects, turns at any of them, /skip with every count
NextSkip ==
  \/ SetupProjects
  \/ MainSelect
  \/ Room(MaxSkipProcs) /\ CmdWork("w")
  \/ \E n \in 1..MaxRounds : CmdSkip(n)
  \/ \E p \in Proj : \E i \in 1..MaxSkipProcs :
       TurnsLeft(p, MaxSkipTurn) /\ AgentClose(p, i, OkFree)

SpecSkip == InitCast /\ [][NextSkip]_vars

\* --- stream framing: every text of up to MaxText characters, written by
\* one process and delivered in chunks cut at any places
RECURSIVE TextsOf(_)
TextsOf(n) ==
  IF n = 0 THEN {<< >>}
  ELSE LET shorter == TextsOf(n - 1)
       IN  shorter \cup {Append(t, c) : t \in shorter, c \in Chars}

InitStream ==
  /\ InitProgram(<<"a">>, [a |-> Marker("", "", "")], 1, [a |-> NoSession])
  /\ \E t \in TextsOf(MaxText) :
       stream = [NoStream EXCEPT !.text = t, !.ended = FALSE]
  /\ doc = NoDoc

Program == << projects, maxHistory, config, state, proc, stopReason, loop,
              snoozeUntil, holdStream, watchProc, watchStopReason, session,
              queue, totalCost, wakeIdle, timer, pc, cur, now, agents,
              watchers, marker, completed, pendingStream, streamOut >>

\* proc.stdout.on("data"): the next n characters arrive as one chunk
StreamData(n) ==
  /\ ~stream.ended
  /\ stream.fed + n <= Len(stream.text)
  /\ stream' = [consumeStreamChunk(stream,
                   SubSeq(stream.text, stream.fed + 1, stream.fed + n))
                 EXCEPT !.fed = @ + n, !.chunks = @ + 1]
  /\ UNCHANGED << Program, doc >>

\* proc.on("close") once all output has arrived: the tail is consumed
StreamClose ==
  /\ ~stream.ended
  /\ stream.fed = Len(stream.text)
  /\ stream' = [consumeStreamTail(stream) EXCEPT !.ended = TRUE]
  /\ UNCHANGED << Program, doc >>

NextStream ==
  \/ \E n \in 1..MaxText : StreamData(n)
  \/ StreamClose

SpecStream == InitStream /\ [][NextStream]_vars

\* --- one project's marker through its turns: the prompt is built from the
\* config in memory, the agent rewrites the file during the turn, the close
\* handler records the turn, reloads and saves
Opt(k, val) == IF val = Undefined THEN << >> ELSE << Entry(k, val) >>

TodosOnDisk == {Undefined, Arr(<<"t1">>), Str("t2")}
\* doing and done: both absent or both present
DoingDoneOnDisk == { << Undefined, Undefined >>,
                     << Arr(<<"d1">>), Arr(<<"n1", "n2">>) >> }
PromptOnDisk == {Undefined, Str("ctx"), Num("7")}

\* the other keys of a marker: none, one unknown key, or two unknown keys
\* first and a lock and a session block last
OthersOnDisk ==
  { << << >>, << >> >>,
    << << Entry("notes", Null) >>, << >> >>,
    << << Entry("owner", Str("ann")), Entry("tags", Arr(<<"x", "y">>)) >>,
       << Entry("lock", Bool(FALSE)),
          Entry("session", SessionValue(1, "earlier", <<"earlier">>)) >> >> }

ObjectFiles ==
  { File("object", ot[1] \o Opt("prompt", pr) \o Opt("todos", td)
                   \o Opt("doing", dd[1]) \o Opt("done", dd[2]) \o ot[2]) :
      ot \in OthersOnDisk, pr \in PromptOnDisk, td \in TodosOnDisk,
      dd \in DoingDoneOnDisk }

DocFiles ==
  ObjectFiles \cup { File(kind, << >>) : kind \in {"empty", "other", "invalid", "missing"} }

DocInputs == {"", "go"}

DocRest == << projects, maxHistory, config, state, proc, stopReason, loop,
              snoozeUntil, holdStream, watchProc, watchStopReason, session,
              queue, totalCost, wakeIdle, timer, pc, cur, now, agents,
              watchers, marker, completed, pendingStream, streamOut, stream >>

\* setupProject: the marker loads, is not locked and is saved
InitDoc ==
  /\ InitProgram(<<"a">>, [a |-> Marker("", "", "")], MAX_HISTORY, [a |-> NoSession])
  /\ stream = NoStream
  /\ \E f \in DocFiles :
       LET fresh == loadConfig(f, MAX_HISTORY)
       IN  /\ fresh.r = "config"
           /\ Get(fresh.config, "lock") = Bool(FALSE)
           /\ doc = [mem |-> fresh.config, disk |-> saveConfig(fresh.config),
                     found |-> NoFile, prompt |-> << >>, phase |-> "idle",
                     turns |-> 0]

\* spawnAgent: the prompt of the turn
DocSpawn(userInput) ==
  /\ doc.phase = "idle"
  /\ doc.turns < MaxDocTurn
  /\ doc' = [doc EXCEPT !.prompt = buildPrompt(doc.mem, userInput),
                        !.found = NoFile, !.phase = "turn"]
  /\ UNCHANGED DocRest

\* the agent leaves the marker file as f
DocEdit(f) ==
  /\ doc.phase = "turn"
  /\ doc' = [doc EXCEPT !.disk = f, !.phase = "edited"]
  /\ UNCHANGED DocRest

\* proc.on("close") of a real completion with the given result
DocClose(result) ==
  /\ doc.phase \in {"turn", "edited"}
  /\ LET c == reloadFields(recordTurn(doc.mem, result, maxHistory), doc.disk, maxHistory)
     IN  doc' = [doc EXCEPT !.mem = c, !.disk = saveConfig(c),
                            !.found = doc.disk, !.prompt = << >>,
                            !.phase = "idle", !.turns = @ + 1]
  /\ UNCHANGED DocRest

NextMarker ==
  \/ \E userInput \in DocInputs : DocSpawn(userInput)
  \/ \E f \in DocFiles : DocEdit(f)
  \/ \E result \in DocResults : DocClose(result)

SpecMarker == InitDoc /\ [][NextMarker]_vars

\* --- the scheduling run with /quit; the exits of the processes that are
\* alive when main() returns are followed too
NextExit == Next \/ CmdQuit

SpecExit == Init /\ [][NextExit]_vars

\* ------------------------------------------------------------- claims
\* a process on which kill() was called by a command (not by its own
\* input-wait detection) and whose close notification is still to come
Requested(a) == a.kills > (IF a.waitStop THEN 1 ELSE 0)

\* C1: at most one agent-turn process of a project is alive (spawned and not
\* yet closed) at any time.
C1_OneAgentPerProject == \A p \in Proj : Len(agents[p]) <= 1

\* C2: a watcher process and an agent-turn process of one project are never
\* alive at the same time.
C2_WatcherExcludesAgent ==
  \A p \in Proj : ~(Len(agents[p]) > 0 /\ Len(watchers[p]) > 0)

\* C3: once a project is dropped, no later step (a process' close
\* notification included) changes its state, puts it in the queue or presents
\* it as the current project.
C3_DroppedIsTerminal ==
  [][\A p \in Proj : state[p] = "dropped" =>
       /\ state'[p] = "dropped"
       /\ ~Includes(queue', p)
       /\ ~(pc' = "prompt" /\ cur' = p)]_vars

\* the step is a /kill or /stop that called kill() on a process of p
KillRequest(p) ==
  /\ AtPrompt
  /\ Len(agents'[p]) = Len(agents[p]) /\ Len(watchers'[p]) = Len(watchers[p])
  /\ \/ \E i \in DOMAIN agents[p] : agents'[p][i].kills > agents[p][i].kills
     \/ \E i \in DOMAIN watchers[p] : watchers'[p][i].kills > watchers[p][i].kills
  /\ \E sel \in Selectors : CmdKill(sel) \/ CmdStop(sel)

\* C4 (as stated): after /kill or /stop requested the termination of a
\* project's process, the project stays working/watching and out of the
\* queue until the exit notification.
C4_KillLeavesBusy ==
  [][\A p \in Proj : KillRequest(p) =>
       state'[p] \in {"working", "watching"} /\ ~Includes(queue', p)]_vars

\* C4 (amended): the /kill or /stop step itself returns the project to idle
\* and to the rotation queue, while the process it asked to terminate has not
\* yet delivered its exit notification.
C4_KillReturnsIdleAtOnce ==
  [][\A p \in Proj : KillRequest(p) =>
       /\ state'[p] = "idle"
       /\ Includes(queue', p)
       /\ Len(agents'[p]) = Len(agents[p])
       /\ Len(watchers'[p]) = Len(watchers[p])]_vars

\* a project is idle and queued while the agent process /kill asked to
\* terminate is still alive
C4_Witness ==
  \E p \in Proj :
    /\ state[p] = "idle" /\ Includes(queue, p)
    /\ stopReason[p] = "requested"
    /\ \E i \in DOMAIN agents[p] : Requested(agents[p][i])

\* C5: the exit of an agent process whose termination was requested is
\* classified as stopped: at its close notification a stop reason is
\* recorded, and no turn is recorded for it.
C5_RequestedExitIsStopped ==
  [][\A p \in Proj : \A i \in DOMAIN agents[p] : \A o \in {OkFree, FailOut} :
       (Requested(agents[p][i]) /\ AgentClose(p, i, o)) =>
          stopReason[p] # "" /\ session'[p] = session[p]]_vars

\* the step is the close notification of an agent process of p, taken with
\* (stopped) or without a recorded stop reason; only the latter counts as a
\* completed turn
ClosesAgent(p, stopped) ==
  /\ (stopReason[p] # "") = stopped
  /\ (completed' = completed) = stopped
  /\ stopped => Len(agents'[p]) < Len(agents[p])
  /\ \E i \in DOMAIN agents[p] : \E o \in SessionOutputs : AgentClose(p, i, o)

\* C6: the close handler of an agent process that finds a recorded stop
\* reason clears it, adds no cost, counts no loop iteration and leaves the
\* project's session (turn, history, summary, sessionId) as it found it.
C6_StoppedLeavesSession ==
  [][\A p \in Proj : ClosesAgent(p, TRUE) =>
       /\ stopReason'[p] = ""
       /\ totalCost' = totalCost
       /\ session'[p] = session[p]
       /\ loop'[p] = loop[p]
       /\ state'[p] = "idle"]_vars

\* an input-wait stop has run its course: the output is on hold, the process
\* has closed, the reason is cleared, and no turn was ever completed
C6_Witness ==
  \E p \in Proj :
    /\ holdStream[p] /\ agents[p] = << >> /\ stopReason[p] = ""
    /\ state[p] = "idle" /\ completed = 0
    /\ session[p].history # << >>

\* h2 holds the last Min(Len(h), cap) elements of h, in the order of h
KeepsMostRecent(h2, h, cap) ==
  /\ Len(h2) = Min(Len(h), cap)
  /\ \A k \in 1..Len(h2) : h2[k] = h[Len(h) - Len(h2) + k]

IsPrefix(h2, h) == Len(h2) <= Len(h) /\ \A k \in 1..Len(h2) : h2[k] = h[k]

\* C7: a close notification without a recorded stop reason advances turn by
\* one and appends one record (the process' input, the result cut to 2000
\* characters, cost, step count) before the history is trimmed; in every
\* other step after setup the history only loses records from its end.
C7_ExitRecordsOneTurn ==
  [][\A p \in Proj :
       LET h == session[p].history
           h2 == session'[p].history
       IN  /\ \A i \in DOMAIN agents[p] : \A o \in SessionOutputs :
                (stopReason[p] = "" /\ completed' # completed /\ AgentClose(p, i, o)) =>
                   /\ session'[p].turn = session[p].turn + 1
                   /\ Len(h2) >= 1
                   /\ h2[Len(h2)] =
                        [ input |-> agents[p][i].input,
                          result |-> Text(TurnResult(o).result.err,
                                          Min(TurnResult(o).result.len, RESULT_CAP)),
                          cost |-> TurnResult(o).cost,
                          turns |-> TurnResult(o).turns ]
                   /\ KeepsMostRecent(h2, Append(h, h2[Len(h2)]), maxHistory)
           /\ (pc # "setup" /\ ~ClosesAgent(p, FALSE)) => IsPrefix(h2, h)]_vars

\* a turn whose result was longer than a record keeps is the last record
C7_Witness ==
  \E p \in Proj :
    /\ session[p].history # << >>
    /\ LET last == session[p].history[Len(session[p].history)]
       IN  last.input = "w" /\ last.result.len = RESULT_CAP /\ last.cost = 1

\* the records of the marker's history array, in order
LoadedRecords(p) ==
  LET raw == marker[p]
      arr == IF raw.ok /\ raw.val.history.ok THEN raw.val.history.val ELSE << >>
      objs == SelectSeq(arr, LAMBDA h : h.ok)
  IN  [k \in DOMAIN objs |-> objs[k].val]

\* what setupProject leaves of the marker's session
LoadKeepsRecent ==
  \A p \in Proj :
    /\ KeepsMostRecent(session[p].history, LoadedRecords(p), maxHistory)
    /\ session[p].turn >= 0
    /\ (marker[p].ok /\ marker[p].val.turn.val < 0) => session[p].turn = 0
    /\ (maxHistory = MAX_HISTORY /\ marker[p] = Loaded30) =>
         [k \in 1..Len(session[p].history) |-> session[p].history[k].turns]
           = [k \in 1..MAX_HISTORY |-> k + 9]

HistoryWithinCap == \A p \in Proj : Len(session[p].history) <= maxHistory

\* C8: the history never holds more than maxHistory records; what is loaded
\* is the most recent maxHistory records of the marker in their order (of 30
\* records under the cap 20, records 10..29; a negative turn becomes 0), and
\* every append keeps the most recent maxHistory records in their order.
C8_HistoryKeepsMostRecent ==
  /\ []HistoryWithinCap
  /\ [][/\ SetupProjects => LoadKeepsRecent'
        /\ \A p \in Proj :
             \A i \in DOMAIN agents[p] : \A o \in SessionOutputs :
               (stopReason[p] = "" /\ completed' # completed /\ AgentClose(p, i, o)) =>
                  /\ session'[p].history # << >>
                  /\ KeepsMostRecent(session'[p].history,
                                     Append(session[p].history,
                                            session'[p].history[Len(session'[p].history)]),
                                     maxHistory)]_vars

\* of the 30 loaded records, record 10 has been evicted by a new turn
C8_Witness ==
  \E p \in Proj :
    /\ marker[p] = Loaded30 /\ Len(session[p].history) = MAX_HISTORY
    /\ session[p].history[1].turns = 11
    /\ session[p].history[MAX_HISTORY].input = "w"

\* C9 (as stated): session.turn is lowered by nothing but a session reset.
C9_OnlyResetLowersTurn ==
  [][\A p \in Proj : session'[p].turn < session[p].turn =>
       /\ cur = p /\ \E u \in UUIDs : CmdFresh(u)
       /\ session'[p].turn = 0]_vars

\* C9 (amended): session.turn is lowered only by a session reset, to 0, and
\* by a revert that pops a history record, by exactly one and not below 0;
\* every other step leaves it or raises it.
C9_ResetOrRevertLowersTurn ==
  [][\A p \in Proj :
       /\ session'[p].turn >= 0
       /\ session'[p].turn < session[p].turn =>
            /\ cur = p
            /\ \/ (\E u \in UUIDs : CmdFresh(u)) /\ session'[p].turn = 0
               \/ /\ CmdRevert
                  /\ session'[p].turn = session[p].turn - 1
                  /\ Len(session'[p].history) = Len(session[p].history) - 1]_vars

\* a turn was completed and reverted: the counter is back at 0 over the
\* records of the marker
C9_Witness ==
  \E p \in Proj :
    /\ completed >= 1 /\ session[p].turn = 0
    /\ session[p].history # << >>
    /\ \A k \in DOMAIN session[p].history : session[p].history[k].input = "old"

\* C10 (as stated): sessionId is never empty and is replaced by nothing but
\* a session reset.
C10_OnlyResetReplacesId ==
  /\ [](pc # "setup" => \A p \in Proj : session[p].sessionId # "")
  /\ [][\A p \in Proj :
          (pc # "setup" /\ session'[p].sessionId # session[p].sessionId) =>
             cur = p /\ \E u \in UUIDs : CmdFresh(u)]_vars

\* C10 (amended): sessionId is never empty; a session reset installs a fresh
\* token with turn 0, an empty summary and an empty history in one step; the
\* only other step that replaces it is a completed turn whose output reports
\* a session id, which becomes the sessionId.
C10_ResetOrAgentReplacesId ==
  /\ [](pc # "setup" => \A p \in Proj : session[p].sessionId # "")
  /\ [][/\ \A u \in UUIDs : CmdFresh(u) =>
             /\ u # session[cur].sessionId
             /\ session'[cur] = [sessionId |-> u, turn |-> 0,
                                 summary |-> EmptyText, history |-> << >>]
        /\ \A p \in Proj :
             (pc # "setup" /\ session'[p].sessionId # session[p].sessionId) =>
             \/ cur = p /\ \E u \in UUIDs : CmdFresh(u)
             \/ \E i \in DOMAIN agents[p] : \E o \in SessionOutputs :
                  /\ stopReason[p] = "" /\ AgentClose(p, i, o)
                  /\ TurnResult(o).sid # ""
                  /\ session'[p].sessionId = TurnResult(o).sid]_vars

\* a completed turn has replaced the session id by the one in its JSON output
C10_Witness == \E p \in Proj : session[p].sessionId = "s2" /\ session[p].turn > 0

\* the step launches an agent process for p: a /work or /loop at p's prompt,
\* or the close handler of p's agent re-dispatching the goal of its loop
Launches(p) ==
  /\ agents'[p] # << >>
  /\ \/ AtPrompt /\ cur = p /\ Len(agents'[p]) > Len(agents[p])
     \/ /\ Suspended /\ state'[p] = "working" /\ completed' # completed
        /\ \E i \in DOMAIN agents[p] : \E o \in ResumeOutputs : AgentClose(p, i, o)

\* the history holds a record whose result is not an error sentinel
HasNonErrorRecord(sess) ==
  \E k \in DOMAIN sess.history : ~StartsWithError(sess.history[k].result)

\* C11: an agent process is launched in resume mode if and only if the
\* history it is launched over holds a record whose result is not an error
\* sentinel; otherwise it is launched fresh.
C11_ResumeIffNonErrorRecord ==
  [][\A p \in Proj : Launches(p) =>
       (agents'[p][Len(agents'[p])].resume <=> HasNonErrorRecord(session'[p]))]_vars

NoDuplicates(q) == \A i, j \in DOMAIN q : i # j => q[i] # q[j]

\* the step takes p from another state to idle
BackToIdle(p) == state[p] # "idle" /\ state'[p] = "idle"

\* C12: a step that returns a project to idle (an agent's or watcher's close
\* handler, the wake-up of a snoozed project, /kill, /stop) leaves the
\* projects already queued in their places and has the project in the queue
\* afterwards, behind them if it was absent; no project is ever queued twice.
C12_IdleAppendsOnce ==
  /\ []NoDuplicates(queue)
  /\ [][\A p \in Proj : BackToIdle(p) =>
          /\ IsPrefix(queue, queue')
          /\ Includes(queue', p)]_vars

\* a project that completed a turn is idle at the tail of the queue, behind
\* the project that stayed queued
C12_Witness ==
  \E p \in Proj :
    /\ session[p].turn = 1 /\ state[p] = "idle"
    /\ Len(queue) = 2 /\ queue[2] = p
    /\ \A r \in Proj : agents[r] = << >>

\* C13: when the main loop selects the next project, every project in the
\* rotation queue is idle.
C13_QueuedAreIdle ==
  pc = "select" => \A p \in Proj : Includes(queue, p) => state[p] = "idle"

\* C14: the step in which the main loop presents a project as current takes
\* an idle project of the rotation queue that no idle project precedes in the
\* queue.
C14_PresentsFirstIdleInQueue ==
  [][(pc = "select" /\ pc' = "prompt") =>
       /\ state'[cur'] = "idle"
       /\ Includes(queue', cur')
       /\ \A j \in 1..(IndexOf(queue', cur') - 1) : state'[queue'[j]] # "idle"]_vars

\* b is presented although a, which precedes it in the discovery array, is
\* idle too: a is behind b in the queue
C14_Witness ==
  /\ pc = "prompt" /\ cur = "b"
  /\ state["a"] = "idle" /\ state["b"] = "idle"
  /\ queue = <<"b", "a">>

\* the due time of the earliest snooze, NoTimer when nothing is snoozed
EarliestExpiry ==
  LET S == {p \in Proj : state[p] = "snoozed"}
  IN  IF S = {} THEN NoTimer
      ELSE snoozeUntil[CHOOSE p \in S : \A r \in S : snoozeUntil[p] <= snoozeUntil[r]]

\* C15: the main loop blocks only when no queued project is idle and some
\* project is working, watching or snoozed; while blocked it has its waiter
\* registered and a timer at the earliest snooze expiry; it leaves the wait
\* only by that timer or in a step that returns a project to idle, every such
\* step releases it, and a blocked loop eventually presents a project.
C15_WaitIsReleased ==
  /\ [](pc = "wait" =>
         /\ wakeIdle /\ timer = EarliestExpiry
         /\ \A p \in Proj : state[p] # "idle"
         /\ \E p \in Proj : state[p] \in {"working", "watching", "snoozed"})
  /\ [][pc = "wait" =>
          /\ pc' \in {"wait", "select"}
          /\ pc' = "select" => (TimerFire \/ \E p \in Proj : BackToIdle(p))
          /\ (\E p \in Proj : BackToIdle(p)) => pc' = "select"]_vars
  /\ (pc = "wait") ~> (pc = "prompt")

\* the loop is blocked on a snoozed project and a working one
C15_Witness ==
  /\ pc = "wait" /\ timer # NoTimer
  /\ \E p \in Proj : state[p] = "working"

AllDropped == \A p \in Proj : state[p] = "dropped"

\* C16: the main loop ends only by /quit or in a selection that finds every
\* project dropped, and a selection that finds every project dropped does end
\* it; no close or error notification of an agent or watcher ends it.
C16_EndsByQuitOrAllDropped ==
  [][/\ (pc # "done" /\ pc' = "done") =>
          \/ CmdQuit
          \/ pc = "select" /\ AllDropped /\ AllDropped'
     /\ (pc = "select" /\ AllDropped) => pc' = "done"
     /\ pc = "done" => pc' = "done"]_vars

\* the run has ended with every project dropped and every process closed,
\* without /quit having killed anything
C16_Witness ==
  /\ pc = "done" /\ AllDropped
  /\ \A p \in Proj : agents[p] = << >> /\ watchers[p] = << >>
  /\ completed = 1

\* C17: /broadcast starts exactly one agent, with the instruction given, for
\* every project that is idle when it is issued, the current one included;
\* each of them becomes working and leaves the queue; every other project
\* keeps its state, its processes and its place in the queue; the command
\* returns to the top of the main loop with all the processes still running.
C17_BroadcastStartsEveryIdle ==
  [][CmdBroadcast("all") =>
       /\ \A p \in Proj :
            IF state[p] = "idle"
            THEN /\ state'[p] = "working"
                 /\ agents'[p] = Append(agents[p], agents'[p][Len(agents'[p])])
                 /\ agents'[p][Len(agents'[p])].input = "all"
                 /\ agents'[p][Len(agents'[p])].kills = 0
                 /\ proc'[p] = Len(agents'[p])
                 /\ ~Includes(queue', p)
            ELSE /\ state'[p] = state[p]
                 /\ agents'[p] = agents[p]
                 /\ proc'[p] = proc[p]
       /\ state[cur] = "idle"
       /\ queue' = SelectSeq(queue, LAMBDA p : state[p] # "idle")
       /\ pc' = "select"
       /\ session' = session /\ totalCost' = totalCost]_vars

\* one broadcast has started an agent in each of the three projects
C17_Witness ==
  /\ \A p \in Proj :
       /\ state[p] = "working" /\ Len(agents[p]) = 1
       /\ agents[p][1].input = "all"
  /\ queue = << >>

\* C18: the close notification of an agent process that no command asked to
\* terminate and that did not stop itself for input adds the cost the
\* process reported to totalCost; every other close notification adds
\* nothing; so totalCost is the sum of the costs of the completed turns.
C18_TotalIsSumOfCosts ==
  [][\A p \in Proj : \A i \in DOMAIN agents[p] : \A o \in {OkOut, FailOut} :
       AgentClose(p, i, o) =>
         totalCost' = totalCost +
           (IF agents[p][i].kills = 0 THEN TurnResult(o).cost ELSE 0)]_vars

\* C19: a loop never counts more turns than its maximum; when an agent
\* process that nothing asked to terminate completes successfully on a
\* project with an active loop, the goal is dispatched again if fewer than
\* max turns are done, and otherwise the loop is cleared and the project is
\* idle at the tail of the queue.
C19_LoopRunsToMax ==
  /\ [](\A p \in Proj : loop[p] # NoLoop => loop[p].done < loop[p].max)
  /\ [][\A p \in Proj : \A i \in DOMAIN agents[p] : \A o \in {OkFree, FailOut} :
          (/\ loop[p] # NoLoop /\ agents[p][i].kills = 0
           /\ ~StartsWithError(TurnResult(o).result)
           /\ AgentClose(p, i, o)) =>
             IF loop[p].done + 1 < loop[p].max
             THEN /\ loop'[p] = [loop[p] EXCEPT !.done = @ + 1]
                  /\ state'[p] = "working"
                  /\ agents'[p] # << >>
                  /\ agents'[p][Len(agents'[p])].input = loop[p].goal
             ELSE /\ loop'[p] = NoLoop
                  /\ state'[p] = "idle"
                  /\ queue' # << >> /\ queue'[Len(queue')] = p]_vars

\* C20: when an agent process that nothing asked to terminate exits with a
\* non-zero code or without output, one turn is recorded whose result is an
\* error sentinel, the turn counter advances, the summary stays, an active
\* loop is cleared, no process is started and the project is idle and queued.
C20_FailedExitIsErrorTurn ==
  [][\A p \in Proj : \A i \in DOMAIN agents[p] :
       (agents[p][i].kills = 0 /\ AgentClose(p, i, FailOut)) =>
          /\ StartsWithError(TurnResult(FailOut).result)
          /\ session'[p].turn = session[p].turn + 1
          /\ session'[p].history # << >>
          /\ StartsWithError(session'[p].history[Len(session'[p].history)].result)
          /\ session'[p].summary = session[p].summary
          /\ loop'[p] = NoLoop
          /\ Len(agents'[p]) = Len(agents[p]) - 1
          /\ state'[p] = "idle" /\ Includes(queue', p)]_vars

\* the projects a /stop or /kill with selector sel is applied to
AppliedTo(sel) == {ScopeOf(sel)[k] : k \in DOMAIN ScopeOf(sel)}

\* C21: after /stop or /kill is applied to a project with an active loop the
\* loop descriptor is null at once, and a completion starts a further loop
\* iteration only for a loop that is still active, so none is started for the
\* loop that was stopped even when the exit of the turn in flight arrives
\* afterwards.
C21_StopOrKillEndsLoop ==
  [][\A p \in Proj :
       /\ \A sel \in Selectors :
            (loop[p] # NoLoop /\ p \in AppliedTo(sel)
               /\ (CmdStop(sel) \/ CmdKill(sel))) => loop'[p] = NoLoop
       /\ \A i \in DOMAIN agents[p] : \A o \in SessionOutputs :
            (AgentClose(p, i, o) /\ Len(agents'[p]) = Len(agents[p]))
               => loop[p] # NoLoop /\ loop'[p] # NoLoop]_vars

\* the report onAgentDone prints for a turn stopped for the reason why
StoppedReport(p, why) == Line("agent", p, "stopped:", why, 0)

\* C22: an input-wait signal of a running turn, on a stdout event or on a
\* stderr line, puts the project's output on hold and requests the process's
\* termination only if no earlier signal of that turn has; and the exit of a
\* turn in which an input-wait signal was seen (the last, unterminated stdout
\* line included) is reported as "stopped: agent requested user input", with
\* the session (turn counter, history, summary) and the count of completed
\* turns unchanged.
C22_InputWaitStopsOnce ==
  [][\A p \in Proj : \A i \in DOMAIN agents[p] :
       /\ (AgentWait(p, i) \/ AgentStderr(p, i, TRUE)) =>
            /\ holdStream'[p]
            /\ agents'[p][i].waitStop
            /\ agents'[p][i].kills =
                 agents[p][i].kills + (IF agents[p][i].waitStop THEN 0 ELSE 1)
       /\ \A o \in HoldOutputs :
            (AgentClose(p, i, o) /\ (agents[p][i].waitStop \/ o.tailWait)) =>
              /\ Includes(agentClose(W, p, i, o).out,
                          StoppedReport(p, "agent requested user input"))
              /\ session'[p] = session[p]
              /\ completed' = completed]_vars

\* the lines of project p among the progress-stream lines lines
LinesOf(lines, p) == SelectSeq(lines, LAMBDA l : l.p = p)

\* what a flush of the held lines list of project p prints
Flushed(p, list) ==
  IF list = << >> THEN << >>
  ELSE <<Line("agent", p, "[buffered]", "", Len(list))>> \o list

\* the user starts a turn of the project at the prompt
UserTurn(p) ==
  cur = p /\ (CmdWork("w") \/ CmdMacro \/ CmdLoop(2, "g"))

\* C23: every handler in which an input-wait signal of project p is detected
\* leaves p's output on hold; and while it is on hold, a step that is not the
\* start of a user-initiated turn of p prints no progress line of p, keeps
\* the held lines in arrival order and keeps the hold, whereas the start of a
\* user-initiated turn of p prints the count banner followed by all held
\* lines in arrival order and empties the buffer.
C23_HeldUntilUserTurn ==
  [][\A p \in Proj :
       /\ \A i \in DOMAIN agents[p] :
            (\/ AgentWait(p, i)
             \/ AgentStderr(p, i, TRUE)
             \/ \E o \in HoldOutputs :
                  o.tailWait /\ stopReason[p] = "" /\ AgentClose(p, i, o))
              => holdStream'[p]
       /\ holdStream[p] =>
            IF UserTurn(p)
            THEN /\ LinesOf(streamOut', p) = Flushed(p, pendingStream[p])
                 /\ pendingStream'[p] = << >>
            ELSE /\ LinesOf(streamOut', p) = << >>
                 /\ IsPrefix(pendingStream[p], pendingStream'[p])
                 /\ holdStream'[p]]_vars

\* project p was stopped with its output on hold and has lines held back
StoppedHolding(p) ==
  holdStream[p] /\ agents[p] = << >> /\ state[p] = "idle" /\ pendingStream[p] # << >>

\* the main loop is back at its top after a command of the prompt at cur
CommandHandled == pc = "select" /\ cur # NoProject

\* C24: when the main loop presents the next prompt after a command has been
\* handled (a /skip at another project included), no project that was stopped
\* with its output on hold still has held lines: they have been printed
\* behind the count banner by then.
C24_FlushedByNextPrompt ==
  [][(CommandHandled /\ MainSelect /\ pc' = "prompt") =>
       \A p \in Proj : StoppedHolding(p) =>
         /\ pendingStream'[p] = << >>
         /\ LinesOf(streamOut', p) = Flushed(p, pendingStream[p])]_vars

\* what the close handler of the i-th live watcher of p prints
WatchReport(p, i, code, h) == watchClose(W, p, i, code, h).out

\* the lines a run of project p's success hook prints
IsHookLine(l) == l.msg \in {"-> hook shell", "[hook]", "-> hook exit", "-> hook prompt"}

\* C25: the exit of a watcher whose stop was requested beforehand is
\* reported as "[watch stopped]" and runs no hook; otherwise an exit with
\* code 0 is reported as "[watch ready]", and a declared afterWatchSuccess
\* hook is run with all of its output after that line; any other exit is
\* reported as "[watch exit]" and runs no hook.
C25_WatchExitClassified ==
  [][\A p \in Proj : \A i \in DOMAIN watchers[p] : \A code \in {0, 1} :
       \A h \in HookRuns(p) :
         WatchCloseWith(p, i, code, h) =>
           LET report == WatchReport(p, i, code, h)
               hooks == SelectSeq(report, IsHookLine)
           IN  IF watchers[p][i].kills > 0
               THEN report = <<Line("R", p, "[watch stopped]", "", 0)>>
               ELSE IF code = 0
               THEN /\ report[1] = Line("R", p, "[watch ready]", "", 0)
                    /\ (hooks # << >>) =
                         (resolveHookAction(config[p].afterWatchSuccess) # "none")
               ELSE report = <<Line("R", p, "[watch exit]", "", 0)>>]_vars

\* the watcher processes of ws that were spawned and have not exited
Running(ws) == SelectSeq(ws, LAMBDA x : ~x.failed)

\* C27: no project ever has more than one running watcher process; /watch at
\* the prompt of a project with a declared watch command and no running
\* watcher starts one, sets the project watching and takes it out of the
\* queue; and /watch for a project that has a running watcher starts no
\* process and changes neither the project's state nor the queue.
C27_OneWatcherPerProject ==
  [][\A p \in Proj :
       /\ Len(Running(watchers'[p])) <= 1
       /\ (cur = p /\ CmdWatchRun) =>
            IF Running(watchers[p]) # << >>
            THEN watchers' = watchers /\ state' = state /\ queue' = queue
            ELSE config[p].watch # "" =>
                   /\ Len(Running(watchers'[p])) = 1
                   /\ state'[p] = "watching"
                   /\ ~Includes(queue', p)]_vars

\* the exit of the i-th live watcher of p has been handled: its close
\* notification with some exit code, or its spawn error
WatchExitHandled(p, i) ==
  WatchError(p, i) \/ \E code \in {0, 1} : WatchClose(p, i, code)

\* C26: once a watcher's exit has been handled, whatever the case, the
\* project's state is idle and the project is in the rotation queue.
C26_WatchExitReturnsIdle ==
  [][\A p \in Proj : \A i \in DOMAIN watchers[p] :
       WatchExitHandled(p, i) => state'[p] = "idle" /\ Includes(queue', p)]_vars

\* C26, amended: once a watcher's exit has been handled the project's state is
\* idle and the project is in the rotation queue, except when the exit is
\* classified as ready (code 0, no stop reason recorded) and the declared
\* afterWatchSuccess hook is a prompt: then the hook's agent turn has been
\* started and the project is working.
C26_WatchExitIdleOrHookTurn ==
  [][\A p \in Proj : \A i \in DOMAIN watchers[p] :
       /\ WatchError(p, i) => state'[p] = "idle" /\ Includes(queue', p)
       /\ \A code \in {0, 1} : WatchClose(p, i, code) =>
            IF code = 0 /\ watchStopReason[p] = "" /\ hookStartsAgent(p)
            THEN /\ state'[p] = "working"
                 /\ Len(agents'[p]) = Len(agents[p]) + 1
                 /\ proc'[p] = Len(agents'[p])
            ELSE /\ state'[p] = "idle" /\ Includes(queue', p)
                 /\ agents'[p] = agents[p]]_vars

\* a watcher has exited cleanly and the prompt hook's turn is running
C26_Witness ==
  \E p \in Proj :
    /\ hookStartsAgent(p)
    /\ watchers[p] = << >> /\ Len(agents[p]) = 1
    /\ state[p] = "working" /\ proc[p] = 1 /\ ~Includes(queue, p)

\* project p occurs in the queue q exactly once
QueuedOnce(q, p) == Len(SelectSeq(q, LAMBDA x : x = p)) = 1

\* C28: when /stop applies stopLoop to a project with no active loop,
\* stopLoop returns false, no kill is requested and the project's state, stop
\* reason and place in the queue stay as they were, even when an agent is
\* running (and the queue is untouched when no project in scope has a loop);
\* applied to a project with an active loop and a running process it returns
\* true, clears the loop, records the stop reason, requests the kill of that
\* process once, sets the state idle and leaves the project in the queue
\* exactly once, the queue's earlier entries keeping their places.
C28_StopLoopIsLoopOnly ==
  [][\A sel \in Selectors : CmdStop(sel) =>
       /\ (\A q \in AppliedTo(sel) : loop[q] = NoLoop) => queue' = queue
       /\ \A p \in AppliedTo(sel) :
            IF loop[p] = NoLoop
            THEN /\ ~stopLoopReturns(W, p)
                 /\ agents'[p] = agents[p]
                 /\ state'[p] = state[p] /\ proc'[p] = proc[p]
                 /\ stopReason'[p] = stopReason[p]
                 /\ Includes(queue', p) = Includes(queue, p)
            ELSE proc[p] # 0 =>
                 /\ stopLoopReturns(W, p)
                 /\ loop'[p] = NoLoop
                 /\ stopReason'[p] = "requested"
                 /\ agents'[p] = [agents[p] EXCEPT ![proc[p]].kills = @ + 1]
                 /\ state'[p] = "idle" /\ proc'[p] = 0
                 /\ QueuedOnce(queue', p)
                 /\ IsPrefix(queue, queue')]_vars

\* a loop's running turn has been stopped: the kill was requested once, the
\* project is idle and queued, and the process has yet to exit
C28_Witness ==
  \E p \in Proj :
    /\ loop[p] = NoLoop /\ stopReason[p] = "requested"
    /\ Len(agents[p]) = 1 /\ agents[p][1].kills = 1
    /\ state[p] = "idle" /\ proc[p] = 0 /\ QueuedOnce(queue, p)

\* C29: when /kill applies killProject to a project whose agent process or
\* watcher process is recorded as running, it returns true, clears any loop,
\* records the stop reason for each process it kills, requests the kill of
\* each of them once, sets the state idle and snoozeUntil 0 and leaves the
\* project in the queue exactly once; applied to a project with neither
\* process it returns false and changes nothing of the project.
C29_KillProjectStopsAll ==
  [][\A sel \in Selectors : \A p \in Proj :
       (p \in AppliedTo(sel) /\ CmdKill(sel)) =>
         IF proc[p] # 0 \/ watchProc[p] # 0
         THEN /\ killProjectReturns(W, p)
              /\ loop'[p] = NoLoop
              /\ proc[p] # 0 =>
                   /\ stopReason'[p] = "requested"
                   /\ agents'[p] = [agents[p] EXCEPT ![proc[p]].kills = @ + 1]
              /\ watchProc[p] # 0 =>
                   /\ watchStopReason'[p] = "requested"
                   /\ watchers'[p] =
                        [watchers[p] EXCEPT ![watchProc[p]].kills = @ + 1]
              /\ state'[p] = "idle" /\ snoozeUntil'[p] = 0
              /\ proc'[p] = 0 /\ watchProc'[p] = 0
              /\ QueuedOnce(queue', p)
         ELSE /\ ~killProjectReturns(W, p)
              /\ agents'[p] = agents[p] /\ watchers'[p] = watchers[p]
              /\ state'[p] = state[p] /\ loop'[p] = loop[p]
              /\ stopReason'[p] = stopReason[p]
              /\ snoozeUntil'[p] = snoozeUntil[p]
              /\ Includes(queue', p) = Includes(queue, p)]_vars

\* C30: /snooze at a project's prompt takes the project out of the queue and
\* marks it snoozed with a wake time in the future; as long as the wake time
\* has not elapsed the project stays snoozed with that wake time, out of the
\* queue, and is not presented at the prompt; at the top of the main loop,
\* once the wake time has elapsed, refreshSnoozed makes it idle with
\* snoozeUntil 0 and in the queue behind the queue's earlier entries; and no
\* project is ever in the queue twice.
C30_SnoozedUntilWake ==
  [][\A p \in Proj :
       /\ (cur = p /\ CmdSnooze(1)) =>
            /\ state'[p] = "snoozed" /\ snoozeUntil'[p] > now
            /\ ~Includes(queue', p)
       /\ (state[p] = "snoozed" /\ snoozeUntil[p] > now') =>
            /\ state'[p] = "snoozed" /\ snoozeUntil'[p] = snoozeUntil[p]
            /\ ~Includes(queue', p)
            /\ cur' # p
       /\ (MainSelect /\ state[p] = "snoozed" /\ snoozeUntil[p] <= now) =>
            /\ state'[p] = "idle" /\ snoozeUntil'[p] = 0
            /\ QueuedOnce(queue', p)
            /\ IsPrefix(queue, queue')
       /\ Len(SelectSeq(queue', LAMBDA x : x = p)) <= 1]_vars

RECURSIVE SplitLines(_)
SplitLines(t) ==
  LET i == IndexOfNewline(t)
  IN  IF i = 0 THEN <<t>>
      ELSE <<SubSeq(t, 1, i - 1)>> \o SplitLines(SubSeq(t, i + 1, Len(t)))

\* the non-empty trimmed lines of the whole text t, in order
WholeLines(t) ==
  LET segs == SplitLines(t)
      trimmed == [k \in DOMAIN segs |-> Trim(segs[k])]
  IN  SelectSeq(trimmed, LAMBDA l : l # << >>)

\* C32: whatever the text and however it was cut into chunks, once the
\* chunks have gone through consumeStreamChunk in order and consumeStreamTail
\* has run, the lines delivered are exactly the non-empty trimmed lines of
\* the whole text, once each and in order, and the records decoded are
\* exactly those of these lines that parse; before that, the lines delivered
\* so far are the first of them.
C32_ChunkingKeepsLines ==
  /\ IsPrefix(stream.lines, WholeLines(stream.text))
  /\ stream.records = SelectSeq(stream.lines, Parses)
  /\ (stream.ended /\ stream.text # << >>) =>
       /\ stream.lines = WholeLines(stream.text)
       /\ stream.lineBuf = << >>

\* a text of three lines, the middle one unparseable, has arrived in more
\* than one chunk with a cut inside a line, and the stream has ended
C32_Witness ==
  /\ stream.ended /\ stream.chunks >= 2
  /\ stream.text = <<"j", "\n", "x", "\n", "j">>
  /\ Len(stream.lines) = 3 /\ Len(stream.records) = 2

\* the lines with which onAgentDone reports the end of a turn
IsDoneReport(l) == l.tag = "R" /\ l.msg \in {"[done]", "[stopped]"}

\* C33: a spawn failure of an agent is resolved as one failed turn: the
\* error notification reports the outcome at no cost and returns the project
\* to idle and to the queue without ending the run, the process's exit
\* notification records the one error turn in the history, and between the
\* two notifications the end of the turn is reported once, not twice.
C33_SpawnFailureIsOneTurn ==
  [][\A p \in Proj : \A i \in DOMAIN agents[p] :
       /\ AgentError(p, i) =>
            /\ totalCost' = totalCost
            /\ state'[p] = "idle" /\ Includes(queue', p)
            /\ pc' # "done"
       /\ \A o \in {FailOut} :
            (agents[p][i].failed /\ stopReason[p] = "" /\ AgentClose(p, i, o)) =>
              /\ session'[p].turn = session[p].turn + 1
              /\ StartsWithError(session'[p].history[Len(session'[p].history)].result)
              /\ totalCost' = totalCost
              /\ SelectSeq(agentClose(W, p, i, o).out, IsDoneReport) = << >>]_vars

\* C34: after /quit every agent process and every watcher process that is
\* still alive has had its termination requested.
C34_QuitKillsEveryProcess ==
  [][CmdQuit =>
       \A p \in Proj :
         /\ \A i \in DOMAIN agents'[p] : agents'[p][i].kills > 0
         /\ \A i \in DOMAIN watchers'[p] : watchers'[p][i].kills > 0]_vars

\* the four fields the close handler reloads
ReloadedKeys == {"todos", "doing", "done", "prompt"}

\* the session block of config c is that of s after one more turn that
\* ended with result
OneMoreTurn(c, s, result) ==
  /\ Get(c, "session").n = s.n + 1
  /\ resultsOf(Get(c, "session")) = Append(resultsOf(s), result)

\* C35: at every completion the marker file holds the four fields as they
\* are on disk: the file loads, the persisted marker and the config in memory
\* take todos, doing, done and prompt from it, and the session block is that
\* of the turn just completed.
C35_MarkerFieldsFromDisk ==
  [][\A result \in DocResults :
       DocClose(result) =>
         LET fresh == loadConfig(doc.disk, maxHistory)
         IN  /\ fresh.r = "config"
             /\ \A k \in ReloadedKeys :
                  /\ Get(doc'.disk.entries, k) = Get(fresh.config, k)
                  /\ Get(doc'.mem, k) = Get(fresh.config, k)
             /\ OneMoreTurn(doc'.disk.entries, Get(doc.mem, "session"), result)]_vars

\* C35 (amended): when a turn completes and the marker file loads as a JSON
\* object (or is empty), the persisted marker and the config in memory take
\* the normalized todos, doing, done and prompt of the file; when it does not
\* load (missing, not JSON, not an object) the values in memory are written.
\* In both cases the session block is that of the turn just completed and
\* every other key is written as it is in memory.
C35_MarkerFieldsReloaded ==
  [][\A result \in DocResults :
       DocClose(result) =>
         LET fresh == loadConfig(doc.disk, maxHistory)
         IN  /\ doc'.disk = saveConfig(doc'.mem)
             /\ \A k \in ReloadedKeys :
                  Get(doc'.mem, k) = IF fresh.r = "config" THEN Get(fresh.config, k)
                                     ELSE Get(doc.mem, k)
             /\ OneMoreTurn(doc'.mem, Get(doc.mem, "session"), result)
             /\ KeysOf(doc'.mem) = KeysOf(doc.mem)
             /\ \A k \in KeysOf(doc.mem) \ (ReloadedKeys \cup {"session"}) :
                  Get(doc'.mem, k) = Get(doc.mem, k)]_vars

\* a turn has completed; the agent had left todos as the string "t2"
\* and no prompt in a marker that held a prompt, and both are in the file
C35_Witness ==
  /\ doc.phase = "idle"
  /\ doc.found.kind = "object"
  /\ Get(doc.found.entries, "todos") = Str("t2")
  /\ Get(doc.found.entries, "prompt") = Undefined
  /\ Get(doc.disk.entries, "todos") = Arr(<<"t2">>)
  /\ Get(doc.disk.entries, "prompt") = Str("")
  /\ Get(doc.mem, "todos") = Arr(<<"t2">>)
  /\ Get(doc.mem, "prompt") = Str("")
  /\ Get(doc.disk.entries, "session").n = 2
  /\ Get(doc.disk.entries, "owner") = Str("ann")

\* the keys the specification reserves
ReservedKeys == {"session", "lock", "prompt", "todos", "doing", "done", "macros",
                 "hooks", "watch"}

\* the keys of the lines of the Metadata section of a prompt
MetaKeysOf(parts) == {parts[i].k : i \in {j \in DOMAIN parts : parts[j].sec = "meta"}}

\* C36: the Metadata section of the prompt built for a turn renders exactly
\* the keys of the marker outside the reserved set, each once, under the
\* Metadata heading, which is there only when there is such a key.
C36_MetadataIsUnknownKeys ==
  (doc.phase \in {"turn", "edited"}) =>
    LET parts == doc.prompt
        metas == {j \in DOMAIN parts : parts[j].sec = "meta"}
        heads == {j \in DOMAIN parts : parts[j].sec = "metahead"}
    IN  /\ MetaKeysOf(parts) = KeysOf(doc.mem) \ ReservedKeys
        /\ \A i, j \in metas : parts[i].k = parts[j].k => i = j
        /\ (metas # {}) = (heads # {})
        /\ \A h \in heads : \A j \in metas : h < j

\* a marker with the unknown keys owner and tags: both are rendered, and the
\* nine reserved keys the config holds are not
C36_Witness ==
  /\ doc.phase = "turn"
  /\ ReservedKeys \subseteq KeysOf(doc.mem)
  /\ MetaKeysOf(doc.prompt) = {"owner", "tags"}

\* a step in which spawnAgent has started a turn of p: one more live agent,
\* or as many after a close (the loop's next iteration)
Spawned(p) ==
  \/ Len(agents'[p]) > Len(agents[p])
  \/ \E i \in DOMAIN agents[p] : \E o \in HoldOutputs :
       AgentClose(p, i, o) /\ Len(agents'[p]) = Len(agents[p])

\* C37: no stop reason is recorded for a project when one of its turns is
\* spawned, and the exit of an agent that was never killed and for which no
\* input-wait stop was requested is handled as a real completion: the turn
\* counter advances.
C37_NoStaleStopReason ==
  [][\A p \in Proj :
       /\ Spawned(p) => stopReason'[p] = ""
       /\ \A i \in DOMAIN agents[p] : \A o \in HoldOutputs :
            (AgentClose(p, i, o) /\ agents[p][i].kills = 0 /\ ~agents[p][i].waitStop)
              => session'[p].turn = session[p].turn + 1]_vars

\* C38: neither /quit nor the exit notifications handled after it change any
\* project's session: no turn is counted and no record is appended for a
\* process the quit cleanup killed.
C38_QuitAddsNoTurn ==
  [][pc' = "done" => session' = session]_vars

\* C39: a project that is idle and has no agent process alive has no loop
\* attached.
C39_IdleHasNoLoop ==
  \A p \in Proj :
    (state[p] = "idle" /\ agents[p] = << >>) => loop[p] = NoLoop

\* C40: whenever a project is presented at the prompt, every project is
\* working exactly when it holds an agent handle and watching exactly when
\* it holds a watcher handle; an idle, snoozed or dropped project holds
\* neither.
C40_StateMatchesHandles ==
  (pc = "prompt") =>
    \A p \in Proj :
      /\ (state[p] = "working") = (proc[p] # 0)
      /\ (state[p] = "watching") = (watchProc[p] # 0)
      /\ (state[p] \in {"idle", "snoozed", "dropped"}) =>
           (proc[p] = 0 /\ watchProc[p] = 0)

====
